---- MODULE Spec2Model ----
(***************************************************************************)
(* Model of the FLICA schedule-detail parser of crew-schedule-app:         *)
(* the server-side parser (server/src/scraper/parser.ts) and the vanilla   *)
(* JS parser injected into the WebView (apps/mobile/src/parsers).          *)
(*                                                                         *)
(* Texts are TLA+ strings; the regular expressions of the source are       *)
(* written out as matchers over the characters of a string.  An optional   *)
(* value (T | null) is a sequence of length 0 or 1.                        *)
(***************************************************************************)
EXTENDS Integers, Sequences, FiniteSets, TLC

(***************************************************************************)
(* Bounds of the model.                                                    *)
(***************************************************************************)
MaxRows == 3

MaxTables == 2

MaxDocTables == 1

MaxRuns == 2

MaxSideRows == 3

\* the clock: Date.now() at the start, the step of the clock, and the number
\* of steps it takes while no retry timer is pending
Epoch == 10000

TickMs == 2500

MaxTicks == 4

(***************************************************************************)
(* Characters and strings.                                                 *)
(***************************************************************************)
DigitChars == {"0", "1", "2", "3", "4", "5", "6", "7", "8", "9"}

UpperChars ==
    {"A", "B", "C", "D", "E", "F", "G", "H", "I", "J", "K", "L", "M",
     "N", "O", "P", "Q", "R", "S", "T", "U", "V", "W", "X", "Y", "Z"}

LowerChars ==
    {"a", "b", "c", "d", "e", "f", "g", "h", "i", "j", "k", "l", "m",
     "n", "o", "p", "q", "r", "s", "t", "u", "v", "w", "x", "y", "z"}

\* \w of a JavaScript regular expression
WordChars == UpperChars \cup LowerChars \cup DigitChars \cup {"_"}

\* \s of a JavaScript regular expression (the characters the documents use)
SpaceChars == {" ", "\t", "\n"}

CharAt(s, i) == IF i >= 1 /\ i <= Len(s) THEN SubSeq(s, i, i) ELSE ""

\* the number of consecutive characters of s, from position i on, that are in S
RECURSIVE RunLen(_, _, _)
RunLen(s, i, S) ==
    IF i >= 1 /\ i <= Len(s) /\ CharAt(s, i) \in S
    THEN 1 + RunLen(s, i + 1, S)
    ELSE 0

\* the number of consecutive characters of s, from position i backwards, in S
RECURSIVE RunLenBack(_, _, _)
RunLenBack(s, i, S) ==
    IF i >= 1 /\ i <= Len(s) /\ CharAt(s, i) \in S
    THEN 1 + RunLenBack(s, i - 1, S)
    ELSE 0

\* String.prototype.trim, and trim(s) of the injected script
Trim(s) ==
    LET a == RunLen(s, 1, SpaceChars)
        b == RunLenBack(s, Len(s), SpaceChars)
    IN  IF a >= Len(s) THEN "" ELSE SubSeq(s, a + 1, Len(s) - b)

\* s.startsWith(p) at position i
HasAt(s, i, p) ==
    /\ i >= 1
    /\ i + Len(p) - 1 <= Len(s)
    /\ SubSeq(s, i, i + Len(p) - 1) = p

\* s.includes(p), s.indexOf(p) >= 0
Includes(s, p) == \E i \in 1..(Len(s) + 1) : HasAt(s, i, p)

\* s.indexOf(p), 1-based; 0 when p does not occur
IndexOf(s, p) ==
    IF Includes(s, p)
    THEN CHOOSE i \in 1..(Len(s) + 1) :
            /\ HasAt(s, i, p)
            /\ \A j \in 1..(i - 1) : ~HasAt(s, j, p)
    ELSE 0

DigitVal(c) ==
    CASE c = "0" -> 0 [] c = "1" -> 1 [] c = "2" -> 2 [] c = "3" -> 3
      [] c = "4" -> 4 [] c = "5" -> 5 [] c = "6" -> 6 [] c = "7" -> 7
      [] c = "8" -> 8 [] c = "9" -> 9

DigitChar(d) ==
    CASE d = 0 -> "0" [] d = 1 -> "1" [] d = 2 -> "2" [] d = 3 -> "3"
      [] d = 4 -> "4" [] d = 5 -> "5" [] d = 6 -> "6" [] d = 7 -> "7"
      [] d = 8 -> "8" [] d = 9 -> "9"

\* the value of the decimal digits s[1..n]
RECURSIVE DecValue(_, _)
DecValue(s, n) ==
    IF n = 0 THEN 0 ELSE 10 * DecValue(s, n - 1) + DigitVal(CharAt(s, n))

\* the result of parseInt on a text with no leading digit
NaN == -1

\* parseInt(s, 10) of a trimmed text without sign: the value of the leading
\* digits, NaN when there is none
ParseInt(s) ==
    LET n == RunLen(s, 1, DigitChars)
    IN  IF n = 0 THEN NaN ELSE DecValue(s, n)

\* a !== b on numbers: NaN differs from every number, itself included
StrictNotEqual(a, b) == a = NaN \/ b = NaN \/ a # b

\* String(n) of a non-negative integer
RECURSIVE NatToString(_)
NatToString(n) ==
    IF n < 10 THEN DigitChar(n) ELSE NatToString(n \div 10) \o DigitChar(n % 10)

\* String(n) of an integer
NumToString(n) == IF n < 0 THEN "-" \o NatToString(0 - n) ELSE NatToString(n)

(***************************************************************************)
(* The fixed tables of the parser.                                         *)
(***************************************************************************)
\* MONTH_MAP[abbr]; 0 stands for undefined (falsy, like undefined in a || b)
MONTH_MAP(abbr) ==
    CASE abbr = "JAN" -> 1 [] abbr = "FEB" -> 2 [] abbr = "MAR" -> 3
      [] abbr = "APR" -> 4 [] abbr = "MAY" -> 5 [] abbr = "JUN" -> 6
      [] abbr = "JUL" -> 7 [] abbr = "AUG" -> 8 [] abbr = "SEP" -> 9
      [] abbr = "OCT" -> 10 [] abbr = "NOV" -> 11 [] abbr = "DEC" -> 12
      [] OTHER -> 0

\* MONTH_NAMES, 1-based here: MONTH_NAMES[k + 1] is the source's entry k
MONTH_NAMES ==
    <<"", "January", "February", "March", "April", "May", "June",
      "July", "August", "September", "October", "November", "December">>

\* MONTH_NAMES.indexOf(name): the source's 0-based index, -1 when absent
MonthNamesIndexOf(name) ==
    IF \E k \in 1..Len(MONTH_NAMES) : MONTH_NAMES[k] = name
    THEN (CHOOSE k \in 1..Len(MONTH_NAMES) :
            /\ MONTH_NAMES[k] = name
            /\ \A j \in 1..(k - 1) : MONTH_NAMES[j] # name) - 1
    ELSE -1

(***************************************************************************)
(* Cells of a row.  cells[i] of the source is 0-based: Cell(cells, i) is   *)
(* $(cells[i]).text().trim(), the empty string when there is no such cell. *)
(***************************************************************************)
Cell(cells, i) == IF i >= 0 /\ i < Len(cells) THEN Trim(cells[i + 1]) ELSE ""

\* the concatenated text of a row's cells: $row.text()
RECURSIVE RowText(_)
RowText(cells) ==
    IF cells = <<>> THEN "" ELSE Head(cells) \o RowText(Tail(cells))

(***************************************************************************)
(* parseDutyPeriods: the row scan.  A row of the flight table is           *)
(* [cls |-> the set of its classes, cells |-> the texts of its td's].      *)
(* The scan state is the record of the function's local variables.         *)
(***************************************************************************)
ScanInit ==
    [ currentLegs    |-> <<>>,
      currentLayover |-> <<>>,
      lastDayOfMonth |-> 0,
      totalBlock     |-> "",
      totalDeadhead  |-> "",
      totalCredit    |-> "",
      totalDutyFdp   |-> "",
      dutyPeriods    |-> <<>> ]

\* the totals row: every cell reading 'Total:' sets the four totals from the
\* cells at offsets +1, +2, +4, +5
RECURSIVE TotalsFrom(_, _, _)
TotalsFrom(st, cells, ci) ==
    IF ci >= Len(cells) THEN st
    ELSE IF Cell(cells, ci) = "Total:"
         THEN TotalsFrom([st EXCEPT !.totalBlock    = Cell(cells, ci + 1),
                                    !.totalDeadhead = Cell(cells, ci + 2),
                                    !.totalCredit   = Cell(cells, ci + 4),
                                    !.totalDutyFdp  = Cell(cells, ci + 5)],
                         cells, ci + 1)
         ELSE TotalsFrom(st, cells, ci + 1)

\* route.split('-'): the part of index k (0-based), '' when there is none
RECURSIVE SplitDash(_, _)
SplitDash(s, k) ==
    LET d == IndexOf(s, "-")
    IN  IF k = 0
        THEN (IF d = 0 THEN s ELSE SubSeq(s, 1, d - 1))
        ELSE (IF d = 0 THEN "" ELSE SplitDash(SubSeq(s, d + 1, Len(s)), k - 1))

\* /^([A-Z]{3})\s+(\d{4})$/ on the last cell: <<airport, restTime>> or <<>>
LayoverMatch(s) ==
    LET sp == RunLen(s, 4, SpaceChars)
    IN  IF /\ RunLen(s, 1, UpperChars) >= 3
           /\ sp >= 1
           /\ RunLen(s, 4 + sp, DigitChars) >= 4
           /\ Len(s) = 3 + sp + 4
        THEN <<SubSeq(s, 1, 3), SubSeq(s, 4 + sp, 7 + sp)>>
        ELSE <<>>

\* the boundary rule's condition on a leg row
BoundaryCond(st, dayOfMonth) ==
    /\ Len(st.currentLegs) > 0
    /\ StrictNotEqual(dayOfMonth, st.lastDayOfMonth)
    /\ st.currentLayover # <<>>

\* a closed period that keeps the first leg only
ClosedPeriodFirstLeg(st) ==
    [ legs          |-> <<Head(st.currentLegs)>>,
      totalBlock    |-> "",
      totalDeadhead |-> "",
      totalCredit   |-> "",
      totalDutyFdp  |-> "",
      layover       |-> st.currentLayover ]

\* the duty period closed by the boundary rule
ClosedPeriod(st) ==
    [ legs          |-> st.currentLegs,
      totalBlock    |-> "",
      totalDeadhead |-> "",
      totalCredit   |-> "",
      totalDutyFdp  |-> "",
      layover       |-> st.currentLayover ]

\* a flight-leg row with at least 10 cells
LegRow(st, cells) ==
    LET dayOfMonth == ParseInt(Cell(cells, 1))
        dhText     == Cell(cells, 2)
        route      == Cell(cells, 5)
        leg == [ dayOfWeek      |-> Cell(cells, 0),
                 dayOfMonth     |-> dayOfMonth,
                 isDeadhead     |-> dhText # "",
                 positionCode   |-> Cell(cells, 3),
                 flightNumber   |-> Cell(cells, 4),
                 origin         |-> SplitDash(route, 0),
                 destination    |-> SplitDash(route, 1),
                 departureLocal |-> Cell(cells, 6),
                 arrivalLocal   |-> Cell(cells, 7),
                 blockTime      |-> Cell(cells, 8),
                 groundTime     |-> Cell(cells, 9) ]
        close == BoundaryCond(st, dayOfMonth)
        st1 == IF close
               THEN [st EXCEPT !.dutyPeriods = Append(@, ClosedPeriod(st)),
                               !.currentLegs = <<>>,
                               !.currentLayover = <<>>]
               ELSE st
        st2 == [st1 EXCEPT !.lastDayOfMonth = dayOfMonth,
                           !.currentLegs = Append(@, leg)]
        layoverMatch == LayoverMatch(Cell(cells, Len(cells) - 1))
    IN  IF layoverMatch # <<>>
        THEN [st2 EXCEPT !.currentLayover =
                << [ airport      |-> layoverMatch[1],
                     restTime     |-> layoverMatch[2],
                     hotelName    |-> "",
                     hotelPhone   |-> "",
                     dutyEndLocal |-> "",
                     reportLocal  |-> "" ] >>]
        ELSE st2

\* /<label>\s*(\d{4}L?)/ anywhere in s: <<capture>> of the leftmost match, or <<>>
TimeAfterAt(s, i, label) ==
    LET a == i + Len(label) + RunLen(s, i + Len(label), SpaceChars)
    IN  IF HasAt(s, i, label) /\ RunLen(s, a, DigitChars) >= 4
        THEN <<SubSeq(s, a, a + 3) \o (IF CharAt(s, a + 4) = "L" THEN "L" ELSE "")>>
        ELSE <<>>

TimeAfter(s, label) ==
    LET hits == {i \in 1..Len(s) : TimeAfterAt(s, i, label) # <<>>}
    IN  IF hits = {} THEN <<>>
        ELSE TimeAfterAt(s, CHOOSE i \in hits : \A j \in hits : i <= j, label)

\* the hotel cells of a layover-detail row, from cell ci on
RECURSIVE HotelFrom(_, _, _)
HotelFrom(lay, cells, ci) ==
    IF ci >= Len(cells) THEN lay
    ELSE LET text == Cell(cells, ci)
             hit  == /\ ci > 1
                     /\ text # ""
                     /\ ~Includes(text, "D-END")
                     /\ ~Includes(text, "T.A.F.B.")
             lay1 == IF hit /\ ~HasAt(text, 1, "(") /\ lay.hotelName = ""
                     THEN [lay EXCEPT !.hotelName = text]
                     ELSE IF hit /\ HasAt(text, 1, "(")
                          THEN [lay EXCEPT !.hotelPhone = text]
                          ELSE lay
         IN  HotelFrom(lay1, cells, ci + 1)

\* a detail row that opens a layover when none is open
DetailRowOpening(st, cells) ==
    LET dendMatch == TimeAfter(Trim(RowText(cells)), "D-END:")
    IN  IF dendMatch # <<>>
        THEN [st EXCEPT !.currentLayover =
                << [ airport      |-> "",
                     restTime     |-> "",
                     hotelName    |-> "",
                     hotelPhone   |-> "",
                     dutyEndLocal |-> dendMatch[1],
                     reportLocal  |-> "" ] >>]
        ELSE st

\* a detail row that also writes the duty end on the period emitted last
DetailRowOnEmitted(st, cells) ==
    LET dendMatch == TimeAfter(Trim(RowText(cells)), "D-END:")
        n         == Len(st.dutyPeriods)
    IN  IF dendMatch # <<>> /\ n > 0
        THEN [st EXCEPT !.dutyPeriods[n].layover[1].dutyEndLocal = dendMatch[1]]
        ELSE st

\* a row that is neither header, totals nor leg
DetailRow(st, cells) ==
    LET rowText   == Trim(RowText(cells))
        dendMatch == TimeAfter(rowText, "D-END:")
        reptMatch == TimeAfter(rowText, "REPT:")
    IN  IF dendMatch # <<>> /\ st.currentLayover # <<>>
        THEN LET lay == [st.currentLayover[1] EXCEPT
                            !.dutyEndLocal = dendMatch[1],
                            !.reportLocal  = IF reptMatch # <<>> THEN reptMatch[1] ELSE ""]
             IN  [st EXCEPT !.currentLayover = <<HotelFrom(lay, cells, 0)>>]
        ELSE st

\* the body of flightRows.each: one row, first matching branch wins
ScanRow(st, r) ==
    IF "main" \in r.cls THEN st
    ELSE IF "bold" \in r.cls THEN TotalsFrom(st, r.cells, 0)
    ELSE IF "nowrap" \in r.cls
         THEN (IF Len(r.cells) < 10 THEN st ELSE LegRow(st, r.cells))
    ELSE DetailRow(st, r.cells)

\* FinalPeriods without the test of currentLegs.length
FinalPeriodsUnguarded(st) ==
    Append(st.dutyPeriods,
           [ legs          |-> st.currentLegs,
             totalBlock    |-> st.totalBlock,
             totalDeadhead |-> st.totalDeadhead,
             totalCredit   |-> st.totalCredit,
             totalDutyFdp  |-> st.totalDutyFdp,
             layover       |-> <<>> ])

\* FinalPeriods attaching the layover that is still open
FinalPeriodsOpenLayover(st) ==
    IF Len(st.currentLegs) > 0
    THEN Append(st.dutyPeriods,
                [ legs          |-> st.currentLegs,
                  totalBlock    |-> st.totalBlock,
                  totalDeadhead |-> st.totalDeadhead,
                  totalCredit   |-> st.totalCredit,
                  totalDutyFdp  |-> st.totalDutyFdp,
                  layover       |-> st.currentLayover ])
    ELSE st.dutyPeriods

\* 'Push the last duty period': the list returned at the end of the input
FinalPeriods(st) ==
    IF Len(st.currentLegs) > 0
    THEN Append(st.dutyPeriods,
                [ legs          |-> st.currentLegs,
                  totalBlock    |-> st.totalBlock,
                  totalDeadhead |-> st.totalDeadhead,
                  totalCredit   |-> st.totalCredit,
                  totalDutyFdp  |-> st.totalDutyFdp,
                  layover       |-> <<>> ])
    ELSE st.dutyPeriods

RECURSIVE ScanRows(_, _)
ScanRows(st, rows) ==
    IF rows = <<>> THEN st ELSE ScanRows(ScanRow(st, Head(rows)), Tail(rows))

(***************************************************************************)
(* parseHeader.                                                            *)
(***************************************************************************)
\* the number of consecutive characters of s, from position i on, not in S
RECURSIVE RunLenNot(_, _, _)
RunLenNot(s, i, S) ==
    IF i >= 1 /\ i <= Len(s) /\ CharAt(s, i) \notin S
    THEN 1 + RunLenNot(s, i + 1, S)
    ELSE 0

\* the least element of a non-empty set of integers
Least(S) == CHOOSE i \in S : \A j \in S : i <= j

\* /(\w+)\s+Schedule/ at position i: the length of the word, 0 for no match
MonthMatchAt(s, i) ==
    LET n  == RunLen(s, i, WordChars)
        sp == RunLen(s, i + n, SpaceChars)
    IN  IF n >= 1 /\ sp >= 1 /\ HasAt(s, i + n + sp, "Schedule") THEN n ELSE 0

\* h3Text.match(/(\w+)\s+Schedule/): <<monthMatch[1]>> or <<>>
MonthMatch(s) ==
    LET hits == {i \in 1..Len(s) : MonthMatchAt(s, i) > 0}
    IN  IF hits = {} THEN <<>>
        ELSE LET i == Least(hits) IN <<SubSeq(s, i, i + MonthMatchAt(s, i) - 1)>>

\* /Schedule\s+([\w\s,]+?)\s*\((\d+)\)/ at position i:
\* <<nameMatch[1] trimmed, nameMatch[2]>> or <<>>
NameMatchAt(s, i) ==
    LET j == i + 8
        m == RunLen(s, j, WordChars \cup SpaceChars \cup {","})
        d == RunLen(s, j + m + 1, DigitChars)
    IN  IF /\ HasAt(s, i, "Schedule")
           /\ CharAt(s, j) \in SpaceChars
           /\ m >= 2
           /\ CharAt(s, j + m) = "("
           /\ d >= 1
           /\ CharAt(s, j + m + 1 + d) = ")"
        THEN <<Trim(SubSeq(s, j, j + m - 1)), SubSeq(s, j + m + 1, j + m + d)>>
        ELSE <<>>

NameMatch(s) ==
    LET hits == {i \in 1..Len(s) : NameMatchAt(s, i) # <<>>}
    IN  IF hits = {} THEN <<>> ELSE NameMatchAt(s, Least(hits))

\* /Last Updated\s+(.+?)$/m at position i: <<updatedMatch[1] trimmed>> or <<>>
UpdatedMatchAt(s, i) ==
    LET j  == i + 12
        sp == RunLen(s, j, SpaceChars)
        n  == RunLenNot(s, j + sp, {"\n"})
    IN  IF HasAt(s, i, "Last Updated") /\ sp >= 1 /\ n >= 1
        THEN <<Trim(SubSeq(s, j + sp, j + sp + n - 1))>>
        ELSE <<>>

UpdatedMatch(s) ==
    LET hits == {i \in 1..Len(s) : UpdatedMatchAt(s, i) # <<>>}
    IN  IF hits = {} THEN <<>> ELSE UpdatedMatchAt(s, Least(hits))

\* a year match that never finds a year
YearMatchNever(s) == <<>>

\* lastUpdated.match(/(\d{4})/): <<parseInt(yearMatch[1], 10)>> or <<>>
YearMatch(s) ==
    LET hits == {i \in 1..Len(s) : RunLen(s, i, DigitChars) >= 4}
    IN  IF hits = {} THEN <<>>
        ELSE LET i == Least(hits) IN <<ParseInt(SubSeq(s, i, i + 3))>>

\* parseHeader on the text of the first h3 ('' when there is none); clock is
\* new Date().getFullYear()
parseHeader(h3Text, clock) ==
    LET monthMatch   == MonthMatch(h3Text)
        monthName    == IF monthMatch # <<>> THEN monthMatch[1] ELSE ""
        nameMatch    == NameMatch(h3Text)
        updatedMatch == UpdatedMatch(h3Text)
        lastUpdated  == IF updatedMatch # <<>> THEN updatedMatch[1] ELSE ""
        yearMatch    == YearMatch(lastUpdated)
    IN  [ month          |-> monthName,
          monthNumber    |-> MonthNamesIndexOf(monthName),
          year           |-> IF yearMatch # <<>> THEN yearMatch[1] ELSE clock,
          crewMemberName |-> IF nameMatch # <<>> THEN nameMatch[1] ELSE "",
          employeeNumber |-> IF nameMatch # <<>> THEN nameMatch[2] ELSE "",
          lastUpdated    |-> lastUpdated ]

(***************************************************************************)
(* Content tables.  A direct child table of the content panel is           *)
(*   [ name   |-> its name attribute ('' when absent),                     *)
(*     hr     |-> whether it contains an hr element,                       *)
(*     rows   |-> its own rows, each the sequence of the td's found under  *)
(*                it, a td being [style |-> .., text |-> ..],              *)
(*     inner  |-> its nested tables in document order, each a sequence of  *)
(*                rows [cls |-> .., cells |-> ..]; a row that holds strong *)
(*                elements has their texts in a further field strongs,     *)
(*     fonts  |-> the texts of its font elements in document order ].      *)
(***************************************************************************)
\* $(cells[i]).text().trim() on a row of styled td's
TdText(cells, i) == IF i >= 0 /\ i < Len(cells) THEN Trim(cells[i + 1].text) ELSE ""

\* the rest of a header after a code of k characters: \s*:\s*(\d{2}[A-Z]{3});
\* <<the date token>> or <<>>
HeaderDate(s, k) ==
    LET a == k + 1 + RunLen(s, k + 1, SpaceChars)
        b == a + 1 + RunLen(s, a + 1, SpaceChars)
    IN  IF /\ k >= 1
           /\ CharAt(s, a) = ":"
           /\ CharAt(s, b) \in DigitChars
           /\ CharAt(s, b + 1) \in DigitChars
           /\ RunLen(s, b + 2, UpperChars) >= 3
        THEN <<SubSeq(s, b, b + 4)>>
        ELSE <<>>

\* /^(O\d+)\s*:\s*(\d{2}[A-Z]{3})/: <<tripNumber, dateStr>> or <<>>
TripMatch(s) ==
    LET d == RunLen(s, 2, DigitChars)
        k == IF CharAt(s, 1) = "O" /\ d >= 1 THEN 1 + d ELSE 0
    IN  IF HeaderDate(s, k) # <<>>
        THEN <<SubSeq(s, 1, k), HeaderDate(s, k)[1]>>
        ELSE <<>>

\* /^[A-Z]{2,4}\s*:\s*\d{2}[A-Z]{3}/.test(s)
ActivityTest(s) ==
    LET n == RunLen(s, 1, UpperChars)
    IN  n >= 2 /\ n <= 4 /\ HeaderDate(s, n) # <<>>

\* /^(\w+)\s*:\s*(\d{2}[A-Z]{3})/: <<type, dateStr>> or <<>>
ActivityMatch(s) ==
    LET k == RunLen(s, 1, WordChars)
    IN  IF HeaderDate(s, k) # <<>>
        THEN <<SubSeq(s, 1, k), HeaderDate(s, k)[1]>>
        ELSE <<>>

\* all td's of a table: table.find('td')
RECURSIVE AllTds(_)
AllTds(rows) == IF rows = <<>> THEN <<>> ELSE Head(rows) \o AllTds(Tail(rows))

\* the first nested table that has a tr.main row: <<its rows>> or <<>>
RECURSIVE FlightTable(_)
FlightTable(inner) ==
    IF inner = <<>> THEN <<>>
    ELSE IF \E k \in 1..Len(Head(inner)) : "main" \in Head(inner)[k].cls
         THEN <<Head(inner)>>
         ELSE FlightTable(Tail(inner))

\* parseDutyPeriods(tripTable)
parseDutyPeriods(table) ==
    LET flightTable == FlightTable(table.inner)
    IN  IF flightTable = <<>> THEN <<>>
        ELSE FinalPeriods(ScanRows(ScanInit, flightTable[1]))

\* the texts of the strong elements of a row, of a nested table and of a
\* content table, in document order
StrongsOf(r) == IF "strongs" \in DOMAIN r THEN r.strongs ELSE <<>>

RECURSIVE RowsStrongs(_)
RowsStrongs(rows) ==
    IF rows = <<>> THEN <<>> ELSE StrongsOf(Head(rows)) \o RowsStrongs(Tail(rows))

RECURSIVE TableStrongs(_)
TableStrongs(inner) ==
    IF inner = <<>> THEN <<>>
    ELSE RowsStrongs(Head(inner)) \o TableStrongs(Tail(inner))

\* /<label>\s*(\d+)/ anywhere in s: <<capture>> of the leftmost match, or <<>>
DigitsAfter(s, label) ==
    LET start(i) == i + Len(label) + RunLen(s, i + Len(label), SpaceChars)
        hits == { i \in 1..Len(s) :
                    HasAt(s, i, label) /\ RunLen(s, start(i), DigitChars) >= 1 }
    IN  IF hits = {} THEN <<>>
        ELSE LET a == start(Least(hits))
             IN  <<SubSeq(s, a, a + RunLen(s, a, DigitChars) - 1)>>

\* the loop over the strong elements keeping the capture of the first match
RECURSIVE FirstCapture(_, _, _)
FirstCapture(value, strongs, label) ==
    IF strongs = <<>> THEN value
    ELSE LET match == DigitsAfter(Trim(Head(strongs)), label)
         IN  FirstCapture(IF match # <<>> /\ value = "" THEN match[1] ELSE value,
                          Tail(strongs), label)

\* table.find('strong').each: the capture of every match is assigned
RECURSIVE EachCapture(_, _, _)
EachCapture(value, strongs, label) ==
    IF strongs = <<>> THEN value
    ELSE LET match == DigitsAfter(Trim(Head(strongs)), label)
         IN  EachCapture(IF match # <<>> THEN match[1] ELSE value,
                         Tail(strongs), label)

\* text1 + text2 + ... of a sequence of texts
RECURSIVE Concat(_)
Concat(texts) == IF texts = <<>> THEN "" ELSE Head(texts) \o Concat(Tail(texts))

\* the nested table has 'Crew:' in its strong elements: in their concatenated
\* text for the server, in one of them for the injected script
HasCrewStrong(impl, rows) ==
    IF impl = "server" THEN Includes(Concat(RowsStrongs(rows)), "Crew:")
    ELSE \E k \in 1..Len(RowsStrongs(rows)) : Includes(RowsStrongs(rows)[k], "Crew:")

\* the first nested table with 'Crew:': <<its rows>> or <<>>
RECURSIVE CrewTableOf(_, _)
CrewTableOf(impl, inner) ==
    IF inner = <<>> THEN <<>>
    ELSE IF HasCrewStrong(impl, Head(inner)) THEN <<Head(inner)>>
    ELSE CrewTableOf(impl, Tail(inner))

\* the for loop over the cells of a crew row, from index ci on
RECURSIVE CrewOfCells(_, _, _)
CrewOfCells(crew, cells, ci) ==
    IF ci >= Len(cells) - 2 THEN crew
    ELSE LET posText == Cell(cells, ci)
             empNum  == Cell(cells, ci + 1)
             name    == Cell(cells, ci + 2)
         IN  CrewOfCells(IF posText \in {"CA", "FO"} /\ empNum # "" /\ name # ""
                         THEN Append(crew, [ position       |-> posText,
                                             employeeNumber |-> empNum,
                                             name           |-> name ])
                         ELSE crew,
                         cells, ci + 1)

RECURSIVE CrewOfRows(_, _)
CrewOfRows(crew, rows) ==
    IF rows = <<>> THEN crew
    ELSE CrewOfRows(CrewOfCells(crew, Head(rows).cells, 0), Tail(rows))

\* parseCrew(tripTable)
parseCrew(impl, table) ==
    LET crewTable == CrewTableOf(impl, table.inner)
    IN  IF crewTable = <<>> THEN <<>> ELSE CrewOfRows(<<>>, crewTable[1])

\* String(n).padStart(2, '0') of the server
PadStart2(n) ==
    LET str == NumToString(n) IN IF Len(str) < 2 THEN "0" \o str ELSE str

\* pad2 of the injected script: n < 10 ? '0' + n : '' + n
Pad2(n) == IF n < 10 THEN "0" \o NumToString(n) ELSE NumToString(n)

\* the two implementations: where the injected script is the server's code
\* line for line, one definition with the parameter impl models both
Pad(impl, n) == IF impl = "server" THEN PadStart2(n) ELSE Pad2(n)

\* the year of the reconstructed date: dateMonthNum < monthNumber ? year + 1 : year
DateYearLate(dateMonthNum, monthNumber, year) ==
    IF dateMonthNum <= monthNumber THEN year + 1 ELSE year

DateYear(dateMonthNum, monthNumber, year) ==
    IF dateMonthNum < monthNumber THEN year + 1 ELSE year

\* MONTH_MAP[monthAbbr] || monthNumber
DateMonthNum(monthAbbr, monthNumber) ==
    IF MONTH_MAP(monthAbbr) # 0 THEN MONTH_MAP(monthAbbr) ELSE monthNumber

\* parseTrip: <<the trip>>, or <<>> for null
parseTrip(impl, table, year, monthNumber) ==
    LET rows        == table.rows
        headerCells == rows[1]
        tripMatch   == TripMatch(TdText(headerCells, 0))
    IN  IF Len(rows) < 2 THEN <<>>
        ELSE IF tripMatch = <<>> THEN <<>>
        ELSE LET dateStr      == tripMatch[2]
                 dayNum       == SubSeq(dateStr, 1, 2)
                 monthAbbr    == SubSeq(dateStr, 3, Len(dateStr))
                 dateMonthNum == DateMonthNum(monthAbbr, monthNumber)
                 dateYear     == DateYear(dateMonthNum, monthNumber, year)
             IN  << [ tripNumber  |-> tripMatch[1],
                      dateStr     |-> dateStr,
                      date        |-> NumToString(dateYear) \o "-"
                                        \o Pad(impl, dateMonthNum) \o "-" \o dayNum,
                      frequency   |-> TdText(headerCells, 1),
                      dutyPeriods |-> parseDutyPeriods(table),
                      tafb        |-> EachCapture("", TableStrongs(table.inner),
                                                  "T.A.F.B.:"),
                      tripRig     |-> EachCapture("", TableStrongs(table.inner),
                                                  "TRIP RIG:"),
                      crew        |-> parseCrew(impl, table) ] >>

\* all rows of a table, as td texts: table.find('tr')
RECURSIVE TdTexts(_)
TdTexts(cells) ==
    IF cells = <<>> THEN <<>> ELSE <<Head(cells).text>> \o TdTexts(Tail(cells))

RECURSIVE OwnRowTexts(_)
OwnRowTexts(rows) ==
    IF rows = <<>> THEN <<>> ELSE <<TdTexts(Head(rows))>> \o OwnRowTexts(Tail(rows))

\* the activity's data fields: the last row with 6 cells or more whose first
\* cell is the type code
RECURSIVE ActivityData(_, _, _)
ActivityData(act, rows, type) ==
    IF rows = <<>> THEN act
    ELSE LET cells == Head(rows)
             act1 == IF Len(cells) >= 6 /\ Cell(cells, 0) = type
                     THEN [act EXCEPT !.startDate = Cell(cells, 1),
                                      !.startTime = Cell(cells, 2),
                                      !.endDate   = Cell(cells, 3),
                                      !.endTime   = Cell(cells, 4),
                                      !.credit    = Cell(cells, 5)]
                     ELSE act
         IN  ActivityData(act1, Tail(rows), type)

\* parseActivity: <<the activity>>, or <<>> for null
parseActivity(table) ==
    LET headerText == IF table.fonts = <<>> THEN "" ELSE Trim(table.fonts[1])
        match      == ActivityMatch(headerText)
    IN  IF match = <<>> THEN <<>>
        ELSE << ActivityData([ type      |-> match[1],
                               dateStr   |-> match[2],
                               startDate |-> "",
                               startTime |-> "",
                               endDate   |-> "",
                               endTime   |-> "",
                               credit    |-> "" ],
                             OwnRowTexts(table.rows), match[1]) >>

(***************************************************************************)
(* parseScheduleItems: the classification of one table.                    *)
(***************************************************************************)
IsSeparator(table) == table.name = "headertable" \/ table.hr

\* tripHeaderTd.length > 0, over the td's of the table
RECURSIVE AnyTripHeaderTd(_)
AnyTripHeaderTd(tds) ==
    /\ tds # <<>>
    /\ \/ /\ Includes(Head(tds).style, "color: #0000ff")
          /\ TripMatch(Trim(Head(tds).text)) # <<>>
       \/ AnyTripHeaderTd(Tail(tds))

HasTripHeaderTd(table) == AnyTripHeaderTd(AllTds(table.rows))

\* activityHeader.length > 0, over the font elements of the table
RECURSIVE AnyActivityHeader(_)
AnyActivityHeader(fonts) ==
    /\ fonts # <<>>
    /\ (ActivityTest(Trim(Head(fonts))) \/ AnyActivityHeader(Tail(fonts)))

HasActivityHeader(table) == AnyActivityHeader(table.fonts)

\* the branch of the while loop a table takes, first match first
TableKind(table) ==
    IF IsSeparator(table) THEN "separator"
    ELSE IF HasTripHeaderTd(table) THEN "trip"
    ELSE IF HasActivityHeader(table) THEN "activity"
    ELSE "other"

\* the loop body with the activity test taken before the other two
ItemsOfTableActivityFirst(impl, table, year, monthNumber) ==
    IF HasActivityHeader(table) /\ parseActivity(table) # <<>>
    THEN <<[type |-> "activity", data |-> parseActivity(table)[1]]>>
    ELSE IF HasTripHeaderTd(table) /\ parseTrip(impl, table, year, monthNumber) # <<>>
    THEN <<[type |-> "trip", data |-> parseTrip(impl, table, year, monthNumber)[1]]>>
    ELSE <<>>

\* the items one iteration of the while loop pushes for a table
ItemsOfTable(impl, table, year, monthNumber) ==
    IF IsSeparator(table) THEN <<>>
    ELSE IF HasTripHeaderTd(table)
         THEN LET trip == parseTrip(impl, table, year, monthNumber)
              IN  IF trip # <<>> THEN <<[type |-> "trip", data |-> trip[1]]>> ELSE <<>>
    ELSE IF HasActivityHeader(table)
         THEN LET activity == parseActivity(table)
              IN  IF activity # <<>>
                  THEN <<[type |-> "activity", data |-> activity[1]]>>
                  ELSE <<>>
    ELSE <<>>

(***************************************************************************)
(* parseCalendar and parseSummary: the rows of the sidebar table.  A row   *)
(* is [bgcolor |-> .., cells |-> ..].  A number is held in hundredths.     *)
(***************************************************************************)
\* s.toLowerCase(), on the letters A-Z
LowerChar(c) ==
    CASE c = "A" -> "a" [] c = "B" -> "b" [] c = "C" -> "c" [] c = "D" -> "d"
      [] c = "E" -> "e" [] c = "F" -> "f" [] c = "G" -> "g" [] c = "H" -> "h"
      [] c = "I" -> "i" [] c = "J" -> "j" [] c = "K" -> "k" [] c = "L" -> "l"
      [] c = "M" -> "m" [] c = "N" -> "n" [] c = "O" -> "o" [] c = "P" -> "p"
      [] c = "Q" -> "q" [] c = "R" -> "r" [] c = "S" -> "s" [] c = "T" -> "t"
      [] c = "U" -> "u" [] c = "V" -> "v" [] c = "W" -> "w" [] c = "X" -> "x"
      [] c = "Y" -> "y" [] c = "Z" -> "z"
      [] OTHER -> c

RECURSIVE ToLowerCase(_)
ToLowerCase(s) ==
    IF s = "" THEN ""
    ELSE LowerChar(SubSeq(s, 1, 1)) \o ToLowerCase(SubSeq(s, 2, Len(s)))

\* parseFloat(s) of a trimmed text: <<the value of the leading
\* [sign]digits[.digits], in hundredths>>, or <<>> for NaN
ParseFloat(s) ==
    LET sg   == IF CharAt(s, 1) \in {"-", "+"} THEN 1 ELSE 0
        n1   == RunLen(s, 1 + sg, DigitChars)
        n2   == IF CharAt(s, 1 + sg + n1) = "." THEN RunLen(s, 2 + sg + n1, DigitChars)
                ELSE 0
        int  == DecValue(SubSeq(s, 1 + sg, sg + n1), n1)
        d1   == IF n2 >= 1 THEN DigitVal(CharAt(s, 2 + sg + n1)) ELSE 0
        d2   == IF n2 >= 2 THEN DigitVal(CharAt(s, 3 + sg + n1)) ELSE 0
        abs  == 100 * int + 10 * d1 + d2
    IN  IF n1 = 0 /\ n2 = 0 THEN <<>>
        ELSE IF CharAt(s, 1) = "-" THEN <<0 - abs>> ELSE <<abs>>

\* the entry pushed for a calendar row
CalendarDay(r) ==
    [ dayOfWeek      |-> Cell(r.cells, 0),
      dayOfMonth     |-> ParseInt(Cell(r.cells, 1)),
      activity       |-> Cell(r.cells, 2),
      layoverAirport |-> Cell(r.cells, 3),
      isWeekend      |-> ToLowerCase(r.bgcolor) = "lightsteelblue" ]

\* the loop body pushing every row of 4 cells or more
CalendarRowUnfiltered(calendar, r) ==
    IF Len(r.cells) < 4 THEN calendar ELSE Append(calendar, CalendarDay(r))

\* the body of parseCalendar's loop on one row
CalendarRow(calendar, r) ==
    IF Len(r.cells) < 4 THEN calendar
    ELSE IF \/ Cell(r.cells, 0) = ""
            \/ Cell(r.cells, 1) = ""
            \/ ParseInt(Cell(r.cells, 1)) = NaN
         THEN calendar
         ELSE Append(calendar, CalendarDay(r))

\* summary fields that start unset
SummaryInitUnset == [block |-> NaN, credit |-> NaN, ytd |-> NaN, daysOff |-> NaN]

\* let block = 0 ... let daysOff = 0
SummaryInit == [block |-> 0, credit |-> 0, ytd |-> 0, daysOff |-> 0]

\* the loop body adding each value to its field
SummaryRowAdding(summary, r) ==
    LET label == ToLowerCase(Cell(r.cells, 0))
        value == ParseFloat(Cell(r.cells, 1))
    IN  IF Len(r.cells) < 2 \/ value = <<>> THEN summary
        ELSE IF label = "block" THEN [summary EXCEPT !.block = @ + value[1]]
        ELSE IF label = "credit" THEN [summary EXCEPT !.credit = @ + value[1]]
        ELSE IF label = "ytd" THEN [summary EXCEPT !.ytd = @ + value[1]]
        ELSE IF Includes(label, "days off") THEN [summary EXCEPT !.daysOff = @ + value[1]]
        ELSE summary

\* the body of parseSummary's loop on one row
SummaryRow(summary, r) ==
    LET label == ToLowerCase(Cell(r.cells, 0))
        value == ParseFloat(Cell(r.cells, 1))
    IN  IF Len(r.cells) < 2 THEN summary
        ELSE IF label = "block" /\ value # <<>> THEN [summary EXCEPT !.block = value[1]]
        ELSE IF label = "credit" /\ value # <<>> THEN [summary EXCEPT !.credit = value[1]]
        ELSE IF label = "ytd" /\ value # <<>> THEN [summary EXCEPT !.ytd = value[1]]
        ELSE IF Includes(label, "days off") /\ value # <<>>
             THEN [summary EXCEPT !.daysOff = value[1]]
        ELSE summary

\* parseCalendar over the rows of the sidebar table
RECURSIVE CalendarRows(_, _)
CalendarRows(calendar, rows) ==
    IF rows = <<>> THEN calendar
    ELSE CalendarRows(CalendarRow(calendar, Head(rows)), Tail(rows))

\* parseSummary over the rows of the sidebar table
RECURSIVE SummaryRows(_, _)
SummaryRows(summary, rows) ==
    IF rows = <<>> THEN summary
    ELSE SummaryRows(SummaryRow(summary, Head(rows)), Tail(rows))

\* the rows parseCalendar and parseSummary read, from the tables of the
\* document that have the id or the name table2, in document order: the
\* server takes the rows of all of them, the injected script the rows of the
\* first by id or, when none has the id, of the first by name
RECURSIVE AllRowsOf(_)
AllRowsOf(tables) ==
    IF tables = <<>> THEN <<>> ELSE Head(tables).rows \o AllRowsOf(Tail(tables))

Table2Rows(impl, sidebars) ==
    LET byId   == SelectSeq(sidebars, LAMBDA t : t.id = "table2")
        byName == SelectSeq(sidebars, LAMBDA t : t.name = "table2")
    IN  IF impl = "server"
        THEN AllRowsOf(SelectSeq(sidebars,
                                 LAMBDA t : t.id = "table2" \/ t.name = "table2"))
        ELSE IF byId # <<>> THEN byId[1].rows
        ELSE IF byName # <<>> THEN byName[1].rows
        ELSE <<>>

parseCalendar(impl, sidebars) == CalendarRows(<<>>, Table2Rows(impl, sidebars))

parseSummary(impl, sidebars) == SummaryRows(SummaryInit, Table2Rows(impl, sidebars))

\* the rows of the sidebar table
SidebarRows ==
    { [bgcolor |-> "LightSteelBlue", cells |-> <<"SU", "01", "O4031", "BOS">>],
      [bgcolor |-> "", cells |-> <<"TU", " 3rd", "", "">>],
      [bgcolor |-> "", cells |-> <<"WE", "XX", "SIC", "">>],
      [bgcolor |-> "", cells |-> <<"", "05", "O4019", "">>],
      [bgcolor |-> "", cells |-> <<"Block", "43.18">>],
      [bgcolor |-> "", cells |-> <<" block ", "50">>],
      [bgcolor |-> "", cells |-> <<"Block", "n/a">>],
      [bgcolor |-> "", cells |-> <<"Credit", " 69.51 ", "", "">>],
      [bgcolor |-> "", cells |-> <<"Days Off:", "18 days">>] }

(***************************************************************************)
(* The rows the scan is run on.                                            *)
(***************************************************************************)
DayTexts == {"01", "02", "XX"}

FlightNumbers == {"460"}

LastCellTexts == {"", "BOS 1030"}

\* the header row of the flight table
MainRows ==
    { [cls |-> {"main"},
       cells |-> <<"DY", "DD", "DH", "C", "FLTNO", "DPS-ARS", "DEPL", "ARRL",
                   "BLKT", "GRNT", "BOS 1030">>],
      [cls |-> {"main", "nowrap"},
       cells |-> <<"SU", "02", "", "*", "460", "MCO-SJU", "0559", "0940",
                   "0241", "0050", "">>] }

\* totals rows
BoldRows ==
    { [cls |-> {"bold"},
       cells |-> <<"", "Total:", "0612", "0000", "", "0612", "0942/0912">>],
      [cls |-> {"bold"}, cells |-> <<"", "", "", "Total:", " 0500 ">>],
      [cls |-> {"bold", "nowrap"},
       cells |-> <<"SU", "02", "", "*", "460", "MCO-SJU", "0559", "0940",
                   "0241", "0050", "BOS 1030">>] }

\* flight-leg rows: 11 cells, or too few cells
NowrapRows ==
    { [cls |-> {"nowrap"},
       cells |-> <<"SU", d, "", "*", f, "MCO-SJU", "0559", "0940", "0241",
                   "0050", l>>] :
         d \in DayTexts, f \in FlightNumbers, l \in LastCellTexts }
    \cup
    { [cls |-> {"nowrap"},
       cells |-> <<"SU", "02", "", "*", "460", "MCO-SJU", "0559", "0940",
                   "BOS 1030">>] }

\* rows of no class: layover-detail rows and others
OtherRows ==
    { [cls |-> {},
       cells |-> <<"", "D-END: 1530L", "REPT: 0500L", "Hilton Boston",
                   "(617) 568-6700">>],
      [cls |-> {},
       cells |-> <<"", "", "D-END: 1712 T.A.F.B.: 2909", "Marriott",
                   "(555) 010-0000", "Hilton Boston", "(617) 568-6700">>],
      [cls |-> {}, cells |-> <<"", "REPT: 0500L", "Hilton Boston">>] }

\* parseScheduleItems over the direct child tables of the content panel
RECURSIVE parseScheduleItems(_, _, _, _)
parseScheduleItems(impl, tables, year, monthNumber) ==
    IF tables = <<>> THEN <<>>
    ELSE ItemsOfTable(impl, Head(tables), year, monthNumber)
            \o parseScheduleItems(impl, Tail(tables), year, monthNumber)

\* parseScheduleDetail of an implementation on a document
\* [h3Text |-> .., sidebars |-> .., tables |-> ..], at a clock year
parseScheduleDetail(impl, doc, clock) ==
    LET hd == parseHeader(doc.h3Text, clock)
    IN  [ month          |-> hd.month,
          year           |-> hd.year,
          crewMemberName |-> hd.crewMemberName,
          employeeNumber |-> hd.employeeNumber,
          lastUpdated    |-> hd.lastUpdated,
          calendar       |-> parseCalendar(impl, doc.sidebars),
          items          |-> parseScheduleItems(impl, doc.tables, hd.year,
                                                hd.monthNumber),
          summary        |-> parseSummary(impl, doc.sidebars) ]

(***************************************************************************)
(* The documents the parser is run on.                                     *)
(***************************************************************************)
\* texts of the first h3 ('' stands for a document with no heading)
Headings ==
    { "February Schedule Brian Wendt (76148)\nLast Updated Feb 12, 2026 10:05",
      "December Schedule Wendt, Brian (76148)\nLast Updated Dec 30, 2026",
      "February Schedule Brian Wendt (76148)\nLast Updated today",
      "Monthly Schedule\nLast Updated Feb 12, 2026",
      "" }

\* values of new Date().getFullYear()
ClockYears == {2026, 2027}

Td(style, text) == [style |-> style, text |-> text]

Blue == "color: #0000ff"

\* the first row of a trip table, with header text h in its first cell
TripHeaderRow(h) ==
    << Td(Blue, h), Td("", " EVERY DAY "), Td("", "BSE REPT: 0515L"),
       Td("", "Operates: Feb 1-Feb 9") >>

TripDetailRow == << Td("", "Base/Equip: MCO/321"), Td("", "CA01FO01") >>

LegCells(d, l) ==
    <<"SU", d, "", "*", "460", "MCO-SJU", "0559", "0940", "0241", "0050", l>>

\* a nested table with no header row, and flight tables
CrewTable ==
    << [cls |-> {}, cells |-> <<"Crew:">>, strongs |-> <<"Crew:">>],
       [cls |-> {}, cells |-> <<"", "CA", "67948", "Price, Gregory", "",
                                "FO", "76148", "Wendt, Brian">>] >>

\* a crew table with a position cell followed by an empty cell
CrewTableGap ==
    << [cls |-> {}, cells |-> <<"Crew:">>, strongs |-> <<"Crew:">>],
       [cls |-> {}, cells |-> <<"CA", "", "Price, Gregory", "FO", "76148",
                                "Wendt, Brian">>] >>

\* a flight table with the trip's T.A.F.B. and trip rig in strong elements of
\* two detail rows
FlightTableTafb ==
    << [cls |-> {"main"}, cells |-> <<"DY", "DD">>],
       [cls |-> {"nowrap"}, cells |-> LegCells("01", "BOS 1030")],
       [cls |-> {}, cells |-> <<"", "", "D-END: 1530L T.A.F.B.: 2909 TRIP RIG: 12">>,
        strongs |-> <<"T.A.F.B.: 2909", "TRIP RIG: 12">>],
       [cls |-> {"nowrap"}, cells |-> LegCells("02", "")],
       [cls |-> {}, cells |-> <<"", "", "D-END: 1712 T.A.F.B.: 1111">>,
        strongs |-> <<"D-END: 1712", " T.A.F.B.:1111 ">>] >>

FlightTableTwoDays ==
    << [cls |-> {"main"}, cells |-> <<"DY", "DD">>],
       [cls |-> {"nowrap"}, cells |-> LegCells("01", "BOS 1030")],
       [cls |-> {"nowrap"}, cells |-> LegCells("02", "")] >>

FlightTableNoLegs == << [cls |-> {"main"}, cells |-> <<"DY", "DD">>] >>

TripTable(h, inner) ==
    [ name |-> "", hr |-> FALSE, rows |-> <<TripHeaderRow(h), TripDetailRow>>,
      inner |-> inner, fonts |-> <<>> ]

ActivityRows(type) ==
    << << Td("", "Activity"), Td("", "Start"), Td("", ""), Td("", "End"),
          Td("", ""), Td("", "Credit") >>,
       << Td("", type), Td("", "06FEB"), Td("", "05:15"), Td("", "07FEB"),
          Td("", "11:02"), Td("", "1039") >> >>

ActivityTable(fonts, rows) ==
    [ name |-> "", hr |-> FALSE, rows |-> rows, inner |-> <<>>, fonts |-> fonts ]

\* the direct child tables of the content panel
ContentTables ==
    { \* trips
      TripTable("O4031 : 01FEB", <<CrewTable, FlightTableTwoDays>>),
      TripTable(" O4001 : 01JAN ", <<FlightTableTwoDays>>),
      TripTable("O4050:28XYZ", <<FlightTableTwoDays>>),
      TripTable("O4019 : 08FEB", <<CrewTable>>),
      TripTable("O4035 : 20MAR", <<FlightTableNoLegs>>),
      TripTable("O4040 : 11FEB", <<CrewTableGap, FlightTableTafb>>),
      \* separators that carry a trip or an activity header
      [ TripTable("O4031 : 01FEB", <<FlightTableTwoDays>>) EXCEPT !.name = "headertable" ],
      [ ActivityTable(<<"SIC : 06FEB">>, ActivityRows("SIC")) EXCEPT !.hr = TRUE ],
      \* a blue trip header that is not the first cell of the first row
      [ name |-> "", hr |-> FALSE,
        rows |-> << <<Td("", "Notes"), Td(Blue, "O4031 : 01FEB")>>, TripDetailRow >>,
        inner |-> <<FlightTableTwoDays>>, fonts |-> <<"SIC : 06FEB">> ],
      \* a trip header in a table of one row
      [ name |-> "", hr |-> FALSE, rows |-> <<TripHeaderRow("O4031 : 01FEB")>>,
        inner |-> <<FlightTableTwoDays>>, fonts |-> <<>> ],
      \* activities
      ActivityTable(<<"SIC : 06FEB">>, ActivityRows("SIC")),
      ActivityTable(<<"SIM : 25FEB">>, <<>>),
      ActivityTable(<<"Training : 06FEB", "REO : 24FEB">>, ActivityRows("REO")),
      ActivityTable(<<"Notes", "REO : 24FEB">>, ActivityRows("REO")),
      \* a cosmetic table
      ActivityTable(<<"Legend">>, <<>>) }

(***************************************************************************)
(* State.                                                                  *)
(***************************************************************************)
VARIABLES
    \* parseDutyPeriods: the local variables of one call
    currentLegs, currentLayover, lastDayOfMonth,
    totalBlock, totalDeadhead, totalCredit, totalDutyFdp,
    dutyPeriods,
    row,        \* <<the row the callback was last called on>>, <<>> before
    nRows,      \* the number of rows scanned
    scanPc,     \* "scan" in flightRows.each, "done" after the final push
    \* parseScheduleDetail: the inputs and the local variables of one call
    h3Text,     \* the text of the document's first h3
    clockYear,  \* new Date().getFullYear()
    header,     \* <<the result of parseHeader>>, <<>> before
    items,
    itemSrc,    \* for each item, the index of the table it was pushed for
    i,          \* the number of tables walked
    table,      \* <<the table last walked>>, <<>> before
    result,     \* <<the record returned>>, <<>> before
    pc,         \* "header", "items", "done"
    \* the two parsers run on one document
    doc,        \* the document: [h3Text |-> .., sidebars |-> .., tables |-> ..]
    runs,       \* the calls made: [impl |-> .., clock |-> .., out |-> ..]
    \* parseCalendar and parseSummary on one sidebar table
    sideRows,   \* the rows of the table
    sidePc,     \* "calendar", "summary", "done"
    sideIdx,    \* the number of rows the running loop has taken
    calendar,
    summary,
    \* fetcher.ts: the clock, the module's variables and the calls
    now,              \* Date.now()
    lastRequestTime,
    requestInFlight,
    callPc,           \* per caller: "idle", "fetching", "reading", "sleeping"
    attempt,          \* per caller: the loop variable of the retry loop
    wakeAt,           \* per caller: the time the retry timer is due
    outcome,          \* per caller: how its last call ended
    body,             \* per caller: <<the page of the response received>>
    requestsSent,     \* per caller: the requests its running call has sent
    lastSentAt,       \* <<the time of the last request sent>>, <<>> before
    \* session.ts
    currentSession,   \* <<the session stored>>, <<>> for null
    sessionCall,      \* the call made last: its arguments and whether it threw
    \* database.ts and scheduleRepository.ts
    db,               \* "closed", "open"
    schedules,        \* the rows of the table schedules
    cacheCall,        \* the repository call made last, with what it returned
    lastSaved,        \* per (month, year): <<the record saved last>>, <<>>
                      \* when there is none or it was deleted since
    \* ScheduleScreen.tsx: the state of the component
    schedule,         \* <<the schedule shown>>, <<>> for null
    loading,
    currentMonth,
    currentYear,
    webViewVisible,
    cacheAge,         \* <<the text of the cache banner>>, <<>> for null
    dbQueue,          \* the repository calls awaited, in the order made
    lastEvent,        \* what the user or the WebView did last
    \* FlicaWebView.tsx: the state, the refs and the WebView of the component
    visible,          \* the prop of the Modal
    showPending,      \* the Modal has opened and onShow has yet to be called
    status,
    errorMsg,         \* <<the message>>, <<>> for null
    extractedRef,
    retryCountRef,
    redirectedToLoginRef,
    navigatedToScheduleRef,
    page,             \* what the WebView holds
    detectTimers,     \* pending setTimeout callbacks that inject the detection
    recheckTimers,    \* pending callbacks that test extractedRef before it
    messages,         \* messages the page has posted, yet to be handled
    sinceShow,        \* since the last onShow: what the component has done
    \* ScheduleScreen.tsx: buildDayViewModels, its argument and its result
    vmSchedule,
    viewModels

scanVars ==
    <<currentLegs, currentLayover, lastDayOfMonth, totalBlock, totalDeadhead,
      totalCredit, totalDutyFdp, dutyPeriods, row, nRows, scanPc>>

walkVars == <<h3Text, clockYear, header, items, itemSrc, i, table, result, pc>>

runVars == <<doc, runs>>

sideVars == <<sideRows, sidePc, sideIdx, calendar, summary>>

fetchVars ==
    <<now, lastRequestTime, requestInFlight, callPc, attempt, wakeAt, outcome,
      body, requestsSent, lastSentAt>>

parserVars == <<scanVars, walkVars, runVars, sideVars>>

sessionVars == <<currentSession, sessionCall>>

cacheVars == <<db, schedules, cacheCall, lastSaved>>

screenVars ==
    <<schedule, loading, currentMonth, currentYear, webViewVisible, cacheAge,
      dbQueue, lastEvent>>

webVars ==
    <<visible, showPending, status, errorMsg, extractedRef, retryCountRef,
      redirectedToLoginRef, navigatedToScheduleRef, page, detectTimers,
      recheckTimers, messages, sinceShow>>

dayVars == <<vmSchedule, viewModels>>

appVars == <<fetchVars, sessionVars, cacheVars, screenVars, webVars, dayVars>>

vars == <<parserVars, appVars>>

\* the local variables as a record
ScanState ==
    [ currentLegs    |-> currentLegs,
      currentLayover |-> currentLayover,
      lastDayOfMonth |-> lastDayOfMonth,
      totalBlock     |-> totalBlock,
      totalDeadhead  |-> totalDeadhead,
      totalCredit    |-> totalCredit,
      totalDutyFdp   |-> totalDutyFdp,
      dutyPeriods    |-> dutyPeriods ]

ScanVarsInit ==
    /\ currentLegs = ScanInit.currentLegs
    /\ currentLayover = ScanInit.currentLayover
    /\ lastDayOfMonth = ScanInit.lastDayOfMonth
    /\ totalBlock = ScanInit.totalBlock
    /\ totalDeadhead = ScanInit.totalDeadhead
    /\ totalCredit = ScanInit.totalCredit
    /\ totalDutyFdp = ScanInit.totalDutyFdp
    /\ dutyPeriods = ScanInit.dutyPeriods
    /\ row = <<>>
    /\ nRows = 0
    /\ scanPc = "scan"

(***************************************************************************)
(* The duty-period scan, one action per kind of row.                       *)
(***************************************************************************)
\* the callback of flightRows.each on row r
Callback(r) ==
    /\ scanPc = "scan"
    /\ nRows < MaxRows
    /\ \E st \in {ScanRow(ScanState, r)} :
          /\ currentLegs' = st.currentLegs
          /\ currentLayover' = st.currentLayover
          /\ lastDayOfMonth' = st.lastDayOfMonth
          /\ totalBlock' = st.totalBlock
          /\ totalDeadhead' = st.totalDeadhead
          /\ totalCredit' = st.totalCredit
          /\ totalDutyFdp' = st.totalDutyFdp
          /\ dutyPeriods' = st.dutyPeriods
    /\ row' = <<r>>
    /\ nRows' = nRows + 1
    /\ UNCHANGED scanPc

ScanMainRow == \E r \in MainRows : Callback(r)

ScanBoldRow == \E r \in BoldRows : Callback(r)

ScanNowrapRow == \E r \in NowrapRows : Callback(r)

ScanOtherRow == \E r \in OtherRows : Callback(r)

\* the end of the input: the last duty period is pushed
EndOfRows ==
    /\ scanPc = "scan"
    /\ dutyPeriods' = FinalPeriods(ScanState)
    /\ scanPc' = "done"
    /\ UNCHANGED <<currentLegs, currentLayover, lastDayOfMonth, totalBlock,
                   totalDeadhead, totalCredit, totalDutyFdp, row, nRows>>

\* the variables of parseScheduleDetail, when it is not running
WalkIdle ==
    /\ h3Text = ""
    /\ clockYear = 0
    /\ header = <<>>
    /\ items = <<>>
    /\ itemSrc = <<>>
    /\ i = 0
    /\ table = <<>>
    /\ result = <<>>
    /\ pc = "idle"

\* the variables of the runs on one document, when there is none
RunIdle ==
    /\ doc = [h3Text |-> "", sidebars |-> <<>>, tables |-> <<>>]
    /\ runs = <<>>

\* the variables of the sidebar loops, when they are not running
SideIdle ==
    /\ sideRows = <<>>
    /\ sidePc = "idle"
    /\ sideIdx = 0
    /\ calendar = <<>>
    /\ summary = SummaryInit

\* the callers of fetchScheduleHtml: two requests handled concurrently
Callers == {"c1", "c2"}

NoOutcome == [kind |-> "none", code |-> "", message |-> "", html |-> {}]

\* the variables of the fetcher, when fetchScheduleHtml is never called
FetchIdle ==
    /\ now = Epoch
    /\ lastRequestTime = 0
    /\ requestInFlight = FALSE
    /\ callPc = [c \in Callers |-> "idle"]
    /\ attempt = [c \in Callers |-> 0]
    /\ wakeAt = [c \in Callers |-> 0]
    /\ outcome = [c \in Callers |-> NoOutcome]
    /\ body = [c \in Callers |-> <<>>]
    /\ requestsSent = [c \in Callers |-> 0]
    /\ lastSentAt = <<>>

NoSessionCall == [op |-> "none", token |-> "", cookies |-> "", threw |-> FALSE]

\* the variables of session.ts, when none of its functions is called
SessionIdle ==
    /\ currentSession = <<>>
    /\ sessionCall = NoSessionCall

\* the (month, year) keys of the cache
Keys == {<<1, 2026>>, <<2, 2026>>}

NoCacheCall == [op |-> "none", key |-> <<>>, out |-> <<>>]

\* the variables of the cache, when the repository is never called
CacheIdle ==
    /\ db = "closed"
    /\ schedules = {}
    /\ cacheCall = NoCacheCall
    /\ lastSaved = [k \in Keys |-> <<>>]

\* the variables of the screen, when it is not mounted
ScreenIdle ==
    /\ schedule = <<>>
    /\ loading = TRUE
    /\ currentMonth = 0
    /\ currentYear = 0
    /\ webViewVisible = FALSE
    /\ cacheAge = <<>>
    /\ dbQueue = <<>>
    /\ lastEvent = "none"

\* what the component has done since onShow, when it has done nothing
NoSession ==
    [parserInjections |-> 0, loginRedirects |-> 0, scheduleNavigations |-> 0,
     redetections |-> 0, loadedCalls |-> 0, ignored |-> 0]

\* the variables of the WebView modal, before it is ever opened
WebIdle ==
    /\ visible = FALSE
    /\ showPending = FALSE
    /\ status = "loading"
    /\ errorMsg = <<>>
    /\ extractedRef = FALSE
    /\ retryCountRef = 0
    /\ redirectedToLoginRef = FALSE
    /\ navigatedToScheduleRef = FALSE
    /\ page = "none"
    /\ detectTimers = 0
    /\ recheckTimers = 0
    /\ messages = <<>>
    /\ sinceShow = NoSession

\* buildDayViewModels, before it is called
DayIdle == vmSchedule = <<>> /\ viewModels = <<>>

AppIdle ==
    FetchIdle /\ SessionIdle /\ CacheIdle /\ ScreenIdle /\ WebIdle /\ DayIdle

ParserIdle == ScanVarsInit /\ WalkIdle /\ RunIdle /\ SideIdle

DutyInit == ScanVarsInit /\ WalkIdle /\ RunIdle /\ SideIdle /\ AppIdle

DutyNext ==
    \/ (ScanMainRow /\ UNCHANGED <<walkVars, runVars, sideVars, appVars>>)
    \/ (ScanBoldRow /\ UNCHANGED <<walkVars, runVars, sideVars, appVars>>)
    \/ (ScanNowrapRow /\ UNCHANGED <<walkVars, runVars, sideVars, appVars>>)
    \/ (ScanOtherRow /\ UNCHANGED <<walkVars, runVars, sideVars, appVars>>)
    \/ (EndOfRows /\ UNCHANGED <<walkVars, runVars, sideVars, appVars>>)

\* parseDutyPeriods on any sequence of at most MaxRows rows
DutySpec == DutyInit /\ [][DutyNext]_vars

(***************************************************************************)
(* parseScheduleDetail of the server: the header, then the walk over the   *)
(* content tables, one action per branch of the classification.            *)
(***************************************************************************)
\* items.push(...) of the walk: the new items go to the end of the list
PushFront(list, new) == new \o list

Push(list, new) == list \o new

WalkInit ==
    /\ h3Text \in Headings
    /\ clockYear \in ClockYears
    /\ header = <<>>
    /\ items = <<>>
    /\ itemSrc = <<>>
    /\ i = 0
    /\ table = <<>>
    /\ result = <<>>
    /\ pc = "header"

\* const header = parseHeader($)
ParseHeader ==
    /\ pc = "header"
    /\ header' = <<parseHeader(h3Text, clockYear)>>
    /\ pc' = "items"
    /\ UNCHANGED <<h3Text, clockYear, items, itemSrc, i, table, result>>

\* one iteration of the while loop, on a table of the given branch
Walk(kind) ==
    /\ pc = "items"
    /\ i < MaxTables
    /\ \E t \in ContentTables :
          /\ TableKind(t) = kind
          /\ \E new \in {ItemsOfTable("server", t, header[1].year, header[1].monthNumber)} :
                /\ items' = Push(items, new)
                /\ itemSrc' = Push(itemSrc, IF new = <<>> THEN <<>> ELSE <<i + 1>>)
          /\ table' = <<t>>
    /\ i' = i + 1
    /\ UNCHANGED <<h3Text, clockYear, header, result, pc>>

WalkSeparator == Walk("separator")

WalkTripTable == Walk("trip")

WalkActivityTable == Walk("activity")

WalkOtherTable == Walk("other")

\* the end of the tables: the record is returned
Return ==
    /\ pc = "items"
    /\ result' = << [ month          |-> header[1].month,
                      year           |-> header[1].year,
                      crewMemberName |-> header[1].crewMemberName,
                      employeeNumber |-> header[1].employeeNumber,
                      lastUpdated    |-> header[1].lastUpdated,
                      items          |-> items ] >>
    /\ pc' = "done"
    /\ UNCHANGED <<h3Text, clockYear, header, items, itemSrc, i, table>>

Init == ScanVarsInit /\ WalkInit /\ RunIdle /\ SideIdle /\ AppIdle

Next ==
    \/ (ParseHeader /\ UNCHANGED <<scanVars, runVars, sideVars, appVars>>)
    \/ (WalkSeparator /\ UNCHANGED <<scanVars, runVars, sideVars, appVars>>)
    \/ (WalkTripTable /\ UNCHANGED <<scanVars, runVars, sideVars, appVars>>)
    \/ (WalkActivityTable /\ UNCHANGED <<scanVars, runVars, sideVars, appVars>>)
    \/ (WalkOtherTable /\ UNCHANGED <<scanVars, runVars, sideVars, appVars>>)
    \/ (Return /\ UNCHANGED <<scanVars, runVars, sideVars, appVars>>)

\* parseScheduleDetail on any heading and any sequence of at most MaxTables
\* content tables
Spec == Init /\ [][Next]_vars

(***************************************************************************)
(* The server's parser and the injected script run on one document, any    *)
(* number of times, at any clock year.                                     *)
(***************************************************************************)
\* the sequences over S of length at most n
RECURSIVE SeqsUpTo(_, _)
SeqsUpTo(S, n) ==
    IF n = 0 THEN {<<>>}
    ELSE SeqsUpTo(S, n - 1)
            \cup {Append(q, x) : q \in {p \in SeqsUpTo(S, n - 1) : Len(p) = n - 1}, x \in S}

\* the tables the documents of the two parsers are made of
DocTables ==
    { TripTable("O4031 : 01FEB", <<CrewTable, FlightTableTwoDays>>),
      TripTable("O4050:28XYZ", <<FlightTableTwoDays>>),
      TripTable("O4019 : 08FEB", <<CrewTable>>),
      [ ActivityTable(<<"SIC : 06FEB">>, ActivityRows("SIC")) EXCEPT !.hr = TRUE ],
      ActivityTable(<<"SIC : 06FEB">>, ActivityRows("SIC")),
      ActivityTable(<<"Legend">>, <<>>) }

\* a table of id table2 and a table of name table2
SidebarById ==
    [ id |-> "table2", name |-> "",
      rows |-> << [bgcolor |-> "LightSteelBlue",
                   cells |-> <<"SU", "01", "O4031", "BOS">>],
                  [bgcolor |-> "", cells |-> <<"Block", "43.18">>] >> ]

SidebarByName ==
    [ id |-> "", name |-> "table2",
      rows |-> << [bgcolor |-> "", cells |-> <<"MO", "02", "SIC", "">>],
                  [bgcolor |-> "", cells |-> <<"Credit", "69.51">>] >> ]

\* the sidebars of the documents: none, one table of id table2, or two
\* tables, one of that id and one of that name, in either order
DocSidebars ==
    { <<>>,
      <<SidebarById>>,
      <<SidebarById, SidebarByName>>,
      <<SidebarByName, SidebarById>> }

RunInit ==
    /\ doc \in [h3Text : Headings, sidebars : DocSidebars,
                 tables : SeqsUpTo(DocTables, MaxDocTables)]
    /\ runs = <<>>

\* one call of parseScheduleDetail
Run(impl) ==
    /\ Len(runs) < MaxRuns
    /\ \E clock \in ClockYears :
          runs' = Append(runs, [ impl  |-> impl,
                                 clock |-> clock,
                                 out   |-> parseScheduleDetail(impl, doc, clock) ])
    /\ UNCHANGED doc

RunServer == Run("server")

RunInjected == Run("injected")

ParsersInit == ScanVarsInit /\ WalkIdle /\ RunInit /\ SideIdle /\ AppIdle

ParsersNext ==
    \/ (RunServer /\ UNCHANGED <<scanVars, walkVars, sideVars, appVars>>)
    \/ (RunInjected /\ UNCHANGED <<scanVars, walkVars, sideVars, appVars>>)

ParsersSpec == ParsersInit /\ [][ParsersNext]_vars

(***************************************************************************)
(* parseCalendar, then parseSummary, on the rows of one sidebar table,     *)
(* one action per iteration of each loop.                                  *)
(***************************************************************************)
SidebarInit ==
    /\ sideRows \in SeqsUpTo(SidebarRows, MaxSideRows)
    /\ sidePc = "calendar"
    /\ sideIdx = 0
    /\ calendar = <<>>
    /\ summary = SummaryInit

\* one iteration of parseCalendar's loop
CalendarStep ==
    /\ sidePc = "calendar"
    /\ sideIdx < Len(sideRows)
    /\ calendar' = CalendarRow(calendar, sideRows[sideIdx + 1])
    /\ sideIdx' = sideIdx + 1
    /\ UNCHANGED <<sideRows, sidePc, summary>>

\* return calendar; parseSummary starts
CalendarReturn ==
    /\ sidePc = "calendar"
    /\ sideIdx = Len(sideRows)
    /\ sidePc' = "summary"
    /\ sideIdx' = 0
    /\ UNCHANGED <<sideRows, calendar, summary>>

\* one iteration of parseSummary's loop
SummaryStep ==
    /\ sidePc = "summary"
    /\ sideIdx < Len(sideRows)
    /\ summary' = SummaryRow(summary, sideRows[sideIdx + 1])
    /\ sideIdx' = sideIdx + 1
    /\ UNCHANGED <<sideRows, sidePc, calendar>>

\* return { block, credit, ytd, daysOff }
SummaryReturn ==
    /\ sidePc = "summary"
    /\ sideIdx = Len(sideRows)
    /\ sidePc' = "done"
    /\ UNCHANGED <<sideRows, sideIdx, calendar, summary>>

SidebarSpecInit == ScanVarsInit /\ WalkIdle /\ RunIdle /\ SidebarInit /\ AppIdle

SidebarNext ==
    \/ (CalendarStep /\ UNCHANGED <<scanVars, walkVars, runVars, appVars>>)
    \/ (CalendarReturn /\ UNCHANGED <<scanVars, walkVars, runVars, appVars>>)
    \/ (SummaryStep /\ UNCHANGED <<scanVars, walkVars, runVars, appVars>>)
    \/ (SummaryReturn /\ UNCHANGED <<scanVars, walkVars, runVars, appVars>>)

SidebarSpec == SidebarSpecInit /\ [][SidebarNext]_vars

(***************************************************************************)
(* fetcher.ts: fetchScheduleHtml called by concurrent callers.  A page is  *)
(* the set of the marker texts it includes.  Time is in milliseconds.      *)
(***************************************************************************)
MIN_REQUEST_INTERVAL_MS == 5000

MAX_UPDATE_RETRIES == 6

UPDATE_RETRY_DELAY_MS == 5000

\* the value the clock stops at, unless a retry timer is pending
ClockEnd == Epoch + MaxTicks * TickMs

\* the pages FLICA answers with
Pages ==
    { {},
      {"table2"},
      {"Updating schedule in progress"},
      {"Updating schedule in progress", "table2"},
      {"recaptcha"},
      {"recaptcha", "Updating schedule in progress"},
      {"recaptcha", "table2"},
      {"Sign In to FLICA", "Updating schedule in progress"},
      {"Sign In to FLICA"},
      {"InitializeSessionData", "table2"} }

Thrown(code, message) ==
    [kind |-> "thrown", code |-> code, message |-> message, html |-> {}]

Returned(html) ==
    [kind |-> "returned", code |-> "", message |-> "", html |-> html]

Pending == [kind |-> "pending", code |-> "", message |-> "", html |-> {}]

\* the entry of a call that does not look at the lock
EntryCheckNoLock(inFlight, nowMs, last) ==
    IF nowMs - last < MIN_REQUEST_INTERVAL_MS /\ last > 0
    THEN "limited"
    ELSE "go"

\* the lock and the interval tested at the entry of fetchScheduleHtml
EntryCheck(inFlight, nowMs, last) ==
    IF inFlight
    THEN "locked"
    ELSE IF nowMs - last < MIN_REQUEST_INTERVAL_MS /\ last > 0
         THEN "limited"
         ELSE "go"

\* a retry loop that never gives up
LastAttemptNever(att) == FALSE

\* page tests that look for the schedule first
PageVerdictScheduleFirst(html) ==
    IF "table2" \in html
    THEN "return"
    ELSE IF "g-recaptcha" \in html \/ "recaptcha" \in html \/ "CAPTCHA" \in html
    THEN "BLOCKED"
    ELSE IF "Sign In to FLICA" \in html \/ "login/index.html" \in html
    THEN "TOKEN_EXPIRED"
    ELSE IF "InitializeSessionData" \in html \/ "Application Error" \in html
    THEN "TOKEN_EXPIRED"
    ELSE IF "Updating schedule in progress" \in html
    THEN "retry"
    ELSE "return"

\* attempt === MAX_UPDATE_RETRIES
LastAttempt(att) == att = MAX_UPDATE_RETRIES

\* what the body of the loop does with the page it read: the code it throws,
\* "retry", or "return"
PageVerdict(html) ==
    IF "g-recaptcha" \in html \/ "recaptcha" \in html \/ "CAPTCHA" \in html
    THEN "BLOCKED"
    ELSE IF "Sign In to FLICA" \in html \/ "login/index.html" \in html
    THEN "TOKEN_EXPIRED"
    ELSE IF "InitializeSessionData" \in html \/ "Application Error" \in html
    THEN "TOKEN_EXPIRED"
    ELSE IF "Updating schedule in progress" \in html
    THEN "retry"
    ELSE "return"

\* the clock advances
Tick ==
    /\ \/ now < ClockEnd
       \/ \E c \in Callers : callPc[c] = "sleeping" /\ now < wakeAt[c]
    /\ now' = now + TickMs
    /\ UNCHANGED <<lastRequestTime, requestInFlight, callPc, attempt, wakeAt,
                   outcome, body, requestsSent, lastSentAt>>

\* the caller is not in a call; calls begin until the clock has reached its end
CanCall(c) ==
    /\ callPc[c] = "idle"
    /\ now <= ClockEnd

\* the end of a call that leaves the lock held
FinishKeepLock(c, how) ==
    /\ outcome' = [outcome EXCEPT ![c] = how]
    /\ callPc' = [callPc EXCEPT ![c] = "idle"]
    /\ attempt' = [attempt EXCEPT ![c] = 0]
    /\ wakeAt' = [wakeAt EXCEPT ![c] = 0]
    /\ body' = [body EXCEPT ![c] = <<>>]
    /\ requestsSent' = [requestsSent EXCEPT ![c] = 0]
    /\ UNCHANGED <<now, lastRequestTime, lastSentAt, requestInFlight>>

\* the call ends: the finally block releases the lock, the locals are gone
Finish(c, how) ==
    /\ outcome' = [outcome EXCEPT ![c] = how]
    /\ callPc' = [callPc EXCEPT ![c] = "idle"]
    /\ attempt' = [attempt EXCEPT ![c] = 0]
    /\ wakeAt' = [wakeAt EXCEPT ![c] = 0]
    /\ body' = [body EXCEPT ![c] = <<>>]
    /\ requestsSent' = [requestsSent EXCEPT ![c] = 0]
    /\ requestInFlight' = FALSE
    /\ UNCHANGED <<now, lastRequestTime, lastSentAt>>

\* the call is rejected at its entry, before the try block
Reject(c, message) ==
    /\ outcome' = [outcome EXCEPT ![c] = Thrown("RATE_LIMITED", message)]
    /\ UNCHANGED <<now, lastRequestTime, requestInFlight, callPc, attempt,
                   wakeAt, body, requestsSent, lastSentAt>>

\* fetchScheduleHtml called while a request is in flight
CallLocked(c) ==
    /\ CanCall(c)
    /\ EntryCheck(requestInFlight, now, lastRequestTime) = "locked"
    /\ Reject(c, "A request is already in progress. Please wait.")

\* fetchScheduleHtml called less than the minimum interval after the last call
CallLimited(c) ==
    /\ CanCall(c)
    /\ EntryCheck(requestInFlight, now, lastRequestTime) = "limited"
    /\ Reject(c, "Rate limited.")

\* fetchScheduleHtml takes the lock and sends the first request
CallStart(c) ==
    /\ CanCall(c)
    /\ EntryCheck(requestInFlight, now, lastRequestTime) = "go"
    /\ requestInFlight' = TRUE
    /\ lastRequestTime' = now
    /\ attempt' = [attempt EXCEPT ![c] = 0]
    /\ callPc' = [callPc EXCEPT ![c] = "fetching"]
    /\ outcome' = [outcome EXCEPT ![c] = Pending]
    /\ requestsSent' = [requestsSent EXCEPT ![c] = 1]
    /\ lastSentAt' = <<now>>
    /\ UNCHANGED <<now, wakeAt, body>>

\* await fetch(...) rejects, or resolves with a redirect or a status not ok
RespondError(c) ==
    /\ callPc[c] = "fetching"
    /\ \E how \in { Thrown("TOKEN_EXPIRED", "FLICA session expired."),
                    Thrown("HTTP_ERROR", "Unexpected redirect"),
                    Thrown("HTTP_ERROR", "FLICA returned HTTP"),
                    Thrown("NETWORK_ERROR", "Network error") } :
         Finish(c, how)

\* await fetch(...) resolves with an ok response
Respond(c) ==
    /\ callPc[c] = "fetching"
    /\ \E html \in Pages : body' = [body EXCEPT ![c] = <<html>>]
    /\ callPc' = [callPc EXCEPT ![c] = "reading"]
    /\ UNCHANGED <<now, lastRequestTime, requestInFlight, attempt, wakeAt,
                   outcome, requestsSent, lastSentAt>>

\* await response.text() rejects
BodyFails(c) ==
    /\ callPc[c] = "reading"
    /\ Finish(c, Thrown("NETWORK_ERROR", "Network error"))

\* await response.text() gives the page, and the rest of the loop body runs
Body(c) ==
    /\ callPc[c] = "reading"
    /\ \E verdict \in {PageVerdict(body[c][1])} :
         CASE verdict = "return" ->
                Finish(c, Returned(body[c][1]))
           [] verdict = "retry" ->
                IF LastAttempt(attempt[c])
                THEN Finish(c, Thrown("HTTP_ERROR",
                                      "FLICA is still building your schedule."))
                ELSE /\ attempt' = [attempt EXCEPT ![c] = @ + 1]
                     /\ wakeAt' = [wakeAt EXCEPT ![c] =
                                       now + UPDATE_RETRY_DELAY_MS]
                     /\ callPc' = [callPc EXCEPT ![c] = "sleeping"]
                     /\ UNCHANGED <<now, lastRequestTime, requestInFlight,
                                    outcome, body, requestsSent, lastSentAt>>
           [] OTHER ->
                Finish(c, [Thrown(verdict, "FLICA page")
                               EXCEPT !.html = body[c][1]])

\* the retry timer fires and the next request is sent
Wake(c) ==
    /\ callPc[c] = "sleeping"
    /\ now >= wakeAt[c]
    /\ callPc' = [callPc EXCEPT ![c] = "fetching"]
    /\ requestsSent' = [requestsSent EXCEPT ![c] = @ + 1]
    /\ lastSentAt' = <<now>>
    /\ UNCHANGED <<now, lastRequestTime, requestInFlight, attempt, wakeAt,
                   outcome, body>>

notFetchVars ==
    <<parserVars, sessionVars, cacheVars, screenVars, webVars, dayVars>>

FetchInit == ParserIdle /\ AppIdle

FetchNext ==
    \/ (Tick /\ UNCHANGED notFetchVars)
    \/ \E c \in Callers : (CallLocked(c) /\ UNCHANGED notFetchVars)
    \/ \E c \in Callers : (CallLimited(c) /\ UNCHANGED notFetchVars)
    \/ \E c \in Callers : (CallStart(c) /\ UNCHANGED notFetchVars)
    \/ \E c \in Callers : (RespondError(c) /\ UNCHANGED notFetchVars)
    \/ \E c \in Callers : (Respond(c) /\ UNCHANGED notFetchVars)
    \/ \E c \in Callers : (BodyFails(c) /\ UNCHANGED notFetchVars)
    \/ \E c \in Callers : (Body(c) /\ UNCHANGED notFetchVars)
    \/ \E c \in Callers : (Wake(c) /\ UNCHANGED notFetchVars)

FetchSpec == FetchInit /\ [][FetchNext]_vars

\* fetch() and response.text() settle, the timer fires and time passes
FetchFairness ==
    /\ WF_vars(Tick /\ UNCHANGED notFetchVars)
    /\ \A c \in Callers :
         /\ WF_vars((Respond(c) \/ RespondError(c)) /\ UNCHANGED notFetchVars)
         /\ WF_vars((Body(c) \/ BodyFails(c)) /\ UNCHANGED notFetchVars)
         /\ WF_vars(Wake(c) /\ UNCHANGED notFetchVars)

FetchLiveSpec == FetchInit /\ [][FetchNext]_vars /\ FetchFairness

(***************************************************************************)
(* session.ts: the session held in memory.                                 *)
(***************************************************************************)
HexChars ==
    {"0", "1", "2", "3", "4", "5", "6", "7", "8", "9", "a", "b", "c", "d", "e",
     "f", "A", "B", "C", "D", "E", "F"}

\* a test for 32 hex characters somewhere in the text
TokenTestUnanchored(str) ==
    \E k \in 1..Len(str) : RunLen(str, k, HexChars) >= 32

\* TOKEN_REGEX.test(str): /^[0-9a-fA-F]{32}$/
TokenTest(str) ==
    /\ Len(str) = 32
    /\ RunLen(str, 1, HexChars) = 32

\* the tokens and the cookie strings the functions are called with
Tokens ==
    { "0123456789abcdef0123456789ABCDEF",
      "ffffffffffffffffffffffffffffffff",
      " 0123456789abcdef0123456789ABCDEF\n",
      "0123456789abcdef0123456789ABCDE",
      "0123456789abcdef0123456789ABCDEF0",
      "0123456789abcdefg123456789ABCDEF",
      "0123456789abcdef 123456789ABCDEF",
      "" }

CookieStrings == {"", "FLiCASession=1", " FLiCASession=1 "}

\* setSession(session)
setSession(token, cookies, op) ==
    LET trimmedToken == Trim(token)
    IN  IF ~TokenTest(trimmedToken)
        THEN /\ sessionCall' = [op |-> op, token |-> token, cookies |-> cookies,
                                threw |-> TRUE]
             /\ UNCHANGED currentSession
        ELSE /\ currentSession' = << [token |-> trimmedToken,
                                      cookies |-> Trim(cookies)] >>
             /\ sessionCall' = [op |-> op, token |-> token, cookies |-> cookies,
                                threw |-> FALSE]

SetSession ==
    \E token \in Tokens, cookies \in CookieStrings :
        setSession(token, cookies, "setSession")

\* setToken(token)
SetToken == \E token \in Tokens : setSession(token, "", "setToken")

\* clearSession()
ClearSession ==
    /\ currentSession' = <<>>
    /\ sessionCall' = [op |-> "clearSession", token |-> "", cookies |-> "",
                       threw |-> FALSE]

notSessionVars ==
    <<parserVars, fetchVars, cacheVars, screenVars, webVars, dayVars>>

SessionInit == ParserIdle /\ AppIdle

SessionNext ==
    \/ (SetSession /\ UNCHANGED notSessionVars)
    \/ (SetToken /\ UNCHANGED notSessionVars)
    \/ (ClearSession /\ UNCHANGED notSessionVars)

SessionSpec == SessionInit /\ [][SessionNext]_vars

(***************************************************************************)
(* database.ts and scheduleRepository.ts: the table schedules, a set of    *)
(* rows [month, year, data, fetched_at] (the id column is not read).  A    *)
(* JSON text is held as the value it parses to; null is JsonNull.          *)
(***************************************************************************)
JsonNull == -2

\* JSON.stringify of a number: NaN is written as null
JsonNumber(n) == IF n = NaN THEN JsonNull ELSE n

\* JSON.stringify(schedule)
JsonStringify(value) ==
    [value EXCEPT
        !.year = JsonNumber(@),
        !.calendar = [k \in DOMAIN @ |->
                         [@[k] EXCEPT !.dayOfMonth = JsonNumber(@)]]]

\* JSON.parse(text)
JsonParse(text) == text

\* the schedules the WebView's message carries: values parsed from JSON
ScheduleData(monthName, dayOfMonth) ==
    [ month          |-> monthName,
      year           |-> 2026,
      crewMemberName |-> "Doe, Jane",
      employeeNumber |-> "12345",
      calendar       |-> << [dayOfMonth |-> dayOfMonth, activity |-> ""] >>,
      items          |-> <<>> ]

MonthlySchedules ==
    { ScheduleData("January", 1), ScheduleData("February", 1),
      ScheduleData("February", JsonNull) }

\* new Date().toISOString() at the time of a save
FetchedAts == {"2026-02-01T08:00:00.000Z", "2026-02-02T08:00:00.000Z"}

\* the rows with the key k
RowsOf(rows, k) == {r \in rows : r.month = k[1] /\ r.year = k[2]}

\* an INSERT that does nothing on a conflict
InsertOrIgnore(rows, k, data, fetchedAt) ==
    IF RowsOf(rows, k) # {}
    THEN rows
    ELSE rows \cup {[month |-> k[1], year |-> k[2], data |-> data,
                     fetched_at |-> fetchedAt]}

\* INSERT ... ON CONFLICT(month, year) DO UPDATE SET data, fetched_at
Upsert(rows, k, data, fetchedAt) ==
    (rows \ RowsOf(rows, k))
        \cup {[month |-> k[1], year |-> k[2], data |-> data,
               fetched_at |-> fetchedAt]}

\* SELECT data ... getFirstAsync: <<the data of a row with the key>>, <<>>
SelectData(rows, k) ==
    IF RowsOf(rows, k) = {}
    THEN <<>>
    ELSE << (CHOOSE r \in RowsOf(rows, k) : TRUE).data >>

\* SELECT COUNT(*)
SelectCount(rows, k) == Cardinality(RowsOf(rows, k))

\* SELECT fetched_at
SelectFetchedAt(rows, k) ==
    IF RowsOf(rows, k) = {}
    THEN <<>>
    ELSE << (CHOOSE r \in RowsOf(rows, k) : TRUE).fetched_at >>

\* getDatabase(): the database is opened by the first call
GetDatabase == db' = "open"

\* repo.getSchedule(month, year)
getSchedule(rows, k) ==
    LET found == SelectData(rows, k)
    IN  IF found = <<>> THEN <<>> ELSE <<JsonParse(found[1])>>

\* repo.hasSchedule(month, year)
hasSchedule(rows, k) == SelectCount(rows, k) > 0

SaveSchedule ==
    \E k \in Keys, data \in MonthlySchedules, at \in FetchedAts :
        /\ GetDatabase
        /\ schedules' = Upsert(schedules, k, JsonStringify(data), at)
        /\ cacheCall' = [op |-> "saveSchedule", key |-> k, out |-> <<>>]
        /\ lastSaved' = [lastSaved EXCEPT ![k] = <<data>>]

GetSchedule ==
    \E k \in Keys :
        /\ GetDatabase
        /\ cacheCall' = [op |-> "getSchedule", key |-> k,
                         out |-> getSchedule(schedules, k)]
        /\ UNCHANGED <<schedules, lastSaved>>

HasSchedule ==
    \E k \in Keys :
        /\ GetDatabase
        /\ cacheCall' = [op |-> "hasSchedule", key |-> k,
                         out |-> <<hasSchedule(schedules, k)>>]
        /\ UNCHANGED <<schedules, lastSaved>>

DeleteSchedule ==
    \E k \in Keys :
        /\ GetDatabase
        /\ schedules' = schedules \ RowsOf(schedules, k)
        /\ cacheCall' = [op |-> "deleteSchedule", key |-> k, out |-> <<>>]
        /\ lastSaved' = [lastSaved EXCEPT ![k] = <<>>]

ClearAll ==
    /\ GetDatabase
    /\ schedules' = {}
    /\ cacheCall' = [op |-> "clearAll", key |-> <<>>, out |-> <<>>]
    /\ lastSaved' = [k \in Keys |-> <<>>]

notCacheVars ==
    <<parserVars, fetchVars, sessionVars, screenVars, webVars, dayVars>>

CacheInit == ParserIdle /\ AppIdle

CacheNext ==
    \/ (SaveSchedule /\ UNCHANGED notCacheVars)
    \/ (GetSchedule /\ UNCHANGED notCacheVars)
    \/ (HasSchedule /\ UNCHANGED notCacheVars)
    \/ (DeleteSchedule /\ UNCHANGED notCacheVars)
    \/ (ClearAll /\ UNCHANGED notCacheVars)

CacheSpec == CacheInit /\ [][CacheNext]_vars

(***************************************************************************)
(* ScheduleScreen.tsx: the screen, the user and the WebView.  The calls of *)
(* the repository a handler awaits are queued and run in the order made.   *)
(***************************************************************************)
\* the calls of the repository that may be awaited at a time
MaxQueue == 2

\* the months the user moves between
FirstMonth == <<12, 2025>>

LastMonth == <<2, 2026>>

\* the cache when the screen mounts
StoredRow(k, data) ==
    [month |-> k[1], year |-> k[2], data |-> JsonStringify(data),
     fetched_at |-> "2026-02-01T08:00:00.000Z"]

InitialCaches ==
    { {},
      {StoredRow(<<2, 2026>>, ScheduleData("February", 1))},
      {StoredRow(<<1, 2026>>, ScheduleData("January", 1)),
       StoredRow(<<2, 2026>>, ScheduleData("February", 1))} }

\* monthNames.indexOf(data.month) of onScheduleLoaded
MonthNumOf(name) ==
    LET monthNames == <<"January", "February", "March", "April", "May", "June",
                        "July", "August", "September", "October", "November",
                        "December">>
    IN  IF \E k \in 1..12 : monthNames[k] = name
        THEN CHOOSE k \in 1..12 : monthNames[k] = name
        ELSE IF name = "" THEN 0 ELSE -1

\* the component mounts: the first effect calls loadFromCache
ScreenInit ==
    /\ schedule = <<>>
    /\ loading = TRUE
    /\ currentMonth = 1
    /\ currentYear = 2026
    /\ webViewVisible = FALSE
    /\ cacheAge = <<>>
    /\ dbQueue = << [op |-> "getSchedule", key |-> <<1, 2026>>, first |-> TRUE] >>
    /\ lastEvent = "mount"
    /\ db = "closed"
    /\ schedules \in InitialCaches
    /\ cacheCall = NoCacheCall
    /\ lastSaved = [k \in Keys |-> getSchedule(schedules, k)]

\* the navigator is on screen and takes a press
CanNavigate ==
    /\ ~loading
    /\ ~webViewVisible
    /\ Len(dbQueue) < MaxQueue

\* the effect on [currentMonth, currentYear]: it calls loadFromCache
MonthEffect(month, year) ==
    dbQueue' = Append(dbQueue, [op |-> "getSchedule", key |-> <<month, year>>,
                                first |-> FALSE])

\* a step to the month before that keeps the year
onPrevMonthSameYear(m, y) == IF m = 1 THEN <<12, y>> ELSE <<m - 1, y>>

\* the updater of onPrevMonth: the month and the year it leaves
onPrevMonth(m, y) == IF m = 1 THEN <<12, y - 1>> ELSE <<m - 1, y>>

\* a step to the month after that keeps the year
onNextMonthSameYear(m, y) == IF m = 12 THEN <<1, y>> ELSE <<m + 1, y>>

\* the updater of onNextMonth: the month and the year it leaves
onNextMonth(m, y) == IF m = 12 THEN <<1, y + 1>> ELSE <<m + 1, y>>

\* onPrevMonth, and the effect of the change
PrevMonth ==
    /\ CanNavigate
    /\ <<currentMonth, currentYear>> # FirstMonth
    /\ currentMonth' = onPrevMonth(currentMonth, currentYear)[1]
    /\ currentYear' = onPrevMonth(currentMonth, currentYear)[2]
    /\ MonthEffect(currentMonth', currentYear')
    /\ lastEvent' = "navigate"
    /\ UNCHANGED <<schedule, loading, webViewVisible, cacheAge, cacheVars>>

\* onNextMonth, and the effect of the change
NextMonth ==
    /\ CanNavigate
    /\ <<currentMonth, currentYear>> # LastMonth
    /\ currentMonth' = onNextMonth(currentMonth, currentYear)[1]
    /\ currentYear' = onNextMonth(currentMonth, currentYear)[2]
    /\ MonthEffect(currentMonth', currentYear')
    /\ lastEvent' = "navigate"
    /\ UNCHANGED <<schedule, loading, webViewVisible, cacheAge, cacheVars>>

\* the press on "Fetch Schedule" of the empty screen
PressFetch ==
    /\ ~loading
    /\ ~webViewVisible
    /\ schedule = <<>>
    /\ webViewVisible' = TRUE
    /\ lastEvent' = "press"
    /\ UNCHANGED <<schedule, loading, currentMonth, currentYear, cacheAge,
                   dbQueue, cacheVars>>

\* onRefresh: the pull on the list
Refresh ==
    /\ ~loading
    /\ ~webViewVisible
    /\ schedule # <<>>
    /\ webViewVisible' = TRUE
    /\ lastEvent' = "refresh"
    /\ UNCHANGED <<schedule, loading, currentMonth, currentYear, cacheAge,
                   dbQueue, cacheVars>>

\* onClose of the WebView
CloseWebView ==
    /\ webViewVisible
    /\ webViewVisible' = FALSE
    /\ lastEvent' = "close"
    /\ UNCHANGED <<schedule, loading, currentMonth, currentYear, cacheAge,
                   dbQueue, cacheVars>>

\* onScheduleLoaded(data), up to its await of repo.saveSchedule
ScheduleLoaded ==
    /\ webViewVisible
    /\ Len(dbQueue) < MaxQueue
    /\ \E data \in MonthlySchedules :
         /\ schedule' = <<data>>
         /\ dbQueue' = IF MonthNumOf(data.month) > 0
                       THEN Append(dbQueue,
                                [op |-> "saveSchedule",
                                 key |-> <<MonthNumOf(data.month), data.year>>,
                                 data |-> data])
                       ELSE dbQueue
    /\ webViewVisible' = FALSE
    /\ cacheAge' = <<"Just now">>
    /\ lastEvent' = "loaded"
    /\ UNCHANGED <<loading, currentMonth, currentYear, cacheVars>>

\* repo.getSchedule of loadFromCache resolves with a schedule
LoadHit ==
    /\ dbQueue # <<>>
    /\ Head(dbQueue).op = "getSchedule"
    /\ getSchedule(schedules, Head(dbQueue).key) # <<>>
    /\ schedule' = getSchedule(schedules, Head(dbQueue).key)
    /\ dbQueue' = <<[op |-> "getFetchedAt", key |-> Head(dbQueue).key,
                     first |-> Head(dbQueue).first]>> \o Tail(dbQueue)
    /\ db' = "open"
    /\ UNCHANGED <<loading, currentMonth, currentYear, webViewVisible, cacheAge,
                   lastEvent, schedules, cacheCall, lastSaved>>

\* repo.getSchedule of loadFromCache resolves with null: loadFromCache returns
\* false
LoadMiss ==
    /\ dbQueue # <<>>
    /\ Head(dbQueue).op = "getSchedule"
    /\ getSchedule(schedules, Head(dbQueue).key) = <<>>
    /\ IF Head(dbQueue).first
       THEN /\ loading' = FALSE
            /\ UNCHANGED <<schedule, cacheAge>>
       ELSE /\ schedule' = <<>>
            /\ cacheAge' = <<>>
            /\ UNCHANGED loading
    /\ dbQueue' = Tail(dbQueue)
    /\ db' = "open"
    /\ UNCHANGED <<currentMonth, currentYear, webViewVisible, lastEvent,
                   schedules, cacheCall, lastSaved>>

\* repo.getFetchedAt of loadFromCache resolves: loadFromCache returns true
LoadAge ==
    /\ dbQueue # <<>>
    /\ Head(dbQueue).op = "getFetchedAt"
    /\ cacheAge' = SelectFetchedAt(schedules, Head(dbQueue).key)
    /\ loading' = IF Head(dbQueue).first THEN FALSE ELSE loading
    /\ dbQueue' = Tail(dbQueue)
    /\ UNCHANGED <<schedule, currentMonth, currentYear, webViewVisible,
                   lastEvent, cacheVars>>

\* repo.saveSchedule of onScheduleLoaded resolves
SaveDone ==
    /\ dbQueue # <<>>
    /\ Head(dbQueue).op = "saveSchedule"
    /\ \E at \in FetchedAts :
         schedules' = Upsert(schedules, Head(dbQueue).key,
                             JsonStringify(Head(dbQueue).data), at)
    /\ lastSaved' = [lastSaved EXCEPT ![Head(dbQueue).key] = <<Head(dbQueue).data>>]
    /\ db' = "open"
    /\ dbQueue' = Tail(dbQueue)
    /\ UNCHANGED <<schedule, loading, currentMonth, currentYear, webViewVisible,
                   cacheAge, lastEvent, cacheCall>>

notScreenVars == <<parserVars, fetchVars, sessionVars, webVars, dayVars>>

ScreenSpecInit ==
    ParserIdle /\ FetchIdle /\ SessionIdle /\ WebIdle /\ DayIdle /\ ScreenInit

ScreenNext ==
    \/ (PrevMonth /\ UNCHANGED notScreenVars)
    \/ (NextMonth /\ UNCHANGED notScreenVars)
    \/ (PressFetch /\ UNCHANGED notScreenVars)
    \/ (Refresh /\ UNCHANGED notScreenVars)
    \/ (CloseWebView /\ UNCHANGED notScreenVars)
    \/ (ScheduleLoaded /\ UNCHANGED notScreenVars)
    \/ (LoadHit /\ UNCHANGED notScreenVars)
    \/ (LoadMiss /\ UNCHANGED notScreenVars)
    \/ (LoadAge /\ UNCHANGED notScreenVars)
    \/ (SaveDone /\ UNCHANGED notScreenVars)

ScreenSpec == ScreenSpecInit /\ [][ScreenNext]_vars

(***************************************************************************)
(* FlicaWebView.tsx: the modal that loads FLICA in a WebView, detects the  *)
(* page after every load and injects the parser on the schedule page.      *)
(***************************************************************************)
MaxPending == 2

\* the pages the WebView can hold: the marks the detection script looks
\* for and the address it reports
WebPage(marks, url) == [marks |-> marks, url |-> url]

NoPage == WebPage({}, "none")

BlankPage == WebPage({}, "about:blank")

WebPages ==
    { WebPage({"recaptcha"}, "https://spirit.flica.net/public/flicalogon.cgi"),
      WebPage({"table2"}, "https://spirit.flica.net/full/scheduledetail.cgi"),
      WebPage({"Updating schedule in progress"},
              "https://spirit.flica.net/full/scheduledetail.cgi"),
      WebPage({"password"}, "https://spirit.flica.net/public/flicalogon.cgi"),
      WebPage({"Sign In to FLICA"},
              "https://spirit.flica.net/full/scheduledetail.cgi"),
      WebPage({}, "https://spirit.flica.net/") }

Message(type, url) == [type |-> type, url |-> url]

\* DETECT_PAGE_JS: the message the detection script posts on a page
DetectPage(p) ==
    IF "recaptcha" \in p.marks THEN Message("captcha", "")
    ELSE IF "table2" \in p.marks \/ "maintable" \in p.marks
    THEN Message("scheduleReady", "")
    ELSE IF "Updating schedule in progress" \in p.marks
    THEN Message("updating", "")
    ELSE IF "password" \in p.marks THEN Message("login", "")
    ELSE IF "InitializeSessionData" \in p.marks \/ "Sign In to FLICA" \in p.marks
    THEN Message("needsRedirectToLogin", "")
    ELSE Message("unknown", p.url)

\* the messages the injected parser posts
ParserMessages == {Message("schedule", ""), Message("parseError", "")}

\* the WebView is rendered: the modal is open and the status is neither
\* 'error' nor 'done'
Rendered(vis, st) == vis /\ st \notin {"error", "done"}

Mounted == Rendered(visible, status)

\* the page and the messages after a step that leaves the modal open or
\* closed with a status: a WebView that is rendered anew starts blank, one
\* that is removed takes its page and its messages with it
WebViewAfter(vis, st, pg, msgs) ==
    /\ page' = IF ~Rendered(vis, st) THEN NoPage
               ELSE IF Mounted THEN pg ELSE BlankPage
    /\ messages' = IF Rendered(vis, st) /\ Mounted THEN msgs ELSE <<>>

\* the callbacks and the messages that wait
Waiting == detectTimers + recheckTimers + Len(messages)

\* the parent shows the modal
OpenModal ==
    /\ ~visible
    /\ visible' = TRUE
    /\ showPending' = TRUE
    /\ WebViewAfter(TRUE, status, page, messages)
    /\ UNCHANGED <<status, errorMsg, extractedRef, retryCountRef,
                   redirectedToLoginRef, navigatedToScheduleRef, detectTimers,
                   recheckTimers, sinceShow>>

\* onShow
OnShow ==
    /\ visible
    /\ showPending
    /\ showPending' = FALSE
    /\ extractedRef' = FALSE
    /\ retryCountRef' = 0
    /\ redirectedToLoginRef' = FALSE
    /\ navigatedToScheduleRef' = FALSE
    /\ status' = "loading"
    /\ errorMsg' = <<>>
    /\ sinceShow' = NoSession
    /\ WebViewAfter(TRUE, "loading", page, messages)
    /\ UNCHANGED <<visible, detectTimers, recheckTimers>>

\* onClose and onRequestClose: the parent hides the modal
CloseModal ==
    /\ visible
    /\ visible' = FALSE
    /\ showPending' = FALSE
    /\ WebViewAfter(FALSE, status, page, messages)
    /\ UNCHANGED <<status, errorMsg, extractedRef, retryCountRef,
                   redirectedToLoginRef, navigatedToScheduleRef, detectTimers,
                   recheckTimers, sinceShow>>

\* onLoadEnd: a page has finished loading
OnLoadEnd ==
    /\ Mounted
    /\ \E p \in WebPages : page' = p
    /\ IF extractedRef
       THEN UNCHANGED detectTimers
       ELSE /\ Waiting < MaxPending
            /\ detectTimers' = detectTimers + 1
    /\ UNCHANGED <<visible, showPending, status, errorMsg, extractedRef,
                   retryCountRef, redirectedToLoginRef, navigatedToScheduleRef,
                   recheckTimers, messages, sinceShow>>

\* onNavigationStateChange
OnNavigationStateChange ==
    /\ Mounted
    /\ \E navLoading \in BOOLEAN :
         IF extractedRef \/ navLoading
         THEN UNCHANGED detectTimers
         ELSE /\ Waiting < MaxPending
              /\ detectTimers' = detectTimers + 1
    /\ UNCHANGED <<visible, showPending, status, errorMsg, extractedRef,
                   retryCountRef, redirectedToLoginRef, navigatedToScheduleRef,
                   page, recheckTimers, messages, sinceShow>>

\* webViewRef.current?.injectJavaScript(DETECT_PAGE_JS): the page posts
\* what the script detects, when there is a WebView
InjectDetection ==
    IF Mounted
    THEN messages' = Append(messages, DetectPage(page))
    ELSE UNCHANGED messages

\* a callback of setTimeout that injects the detection script
DetectTimerFires ==
    /\ detectTimers > 0
    /\ detectTimers' = detectTimers - 1
    /\ InjectDetection
    /\ UNCHANGED <<visible, showPending, status, errorMsg, extractedRef,
                   retryCountRef, redirectedToLoginRef, navigatedToScheduleRef,
                   page, recheckTimers, sinceShow>>

\* the callback of the 'unknown' case, which tests extractedRef first
RecheckTimerFires ==
    /\ recheckTimers > 0
    /\ recheckTimers' = recheckTimers - 1
    /\ IF extractedRef THEN UNCHANGED messages ELSE InjectDetection
    /\ UNCHANGED <<visible, showPending, status, errorMsg, extractedRef,
                   retryCountRef, redirectedToLoginRef, navigatedToScheduleRef,
                   page, detectTimers, sinceShow>>

\* a handler that ignores extractedRef
HandledAlways(m, extracted) ==
    IF m.type \in {"schedule", "parseError"} /\ ~extracted THEN "ignored"
    ELSE m.type

\* onMessage: the case a message is handled by
Handled(m, extracted) ==
    IF extracted
    THEN IF m.type = "schedule" THEN "schedule"
         ELSE IF m.type = "parseError" THEN "parseError"
         ELSE "ignored"
    ELSE IF m.type \in {"needsRedirectToLogin", "login", "captcha",
                        "scheduleReady", "updating", "unknown"}
    THEN m.type
    ELSE "ignored"

\* a retry that is never refused
RetryAlways(count) == TRUE

\* the 'updating' case: another detection is scheduled
RetryAllowed(count) == count <= 6

\* a redirect that does not look at the ref
MayRedirectAlways(redirected) == TRUE

\* the 'needsRedirectToLogin' case: the redirect is issued
MayRedirect(redirected) == ~redirected

\* the 'unknown' case: isAuthenticated
isAuthenticated(url, redirected) ==
    \/ Includes(url, "/online/")
    \/ Includes(url, "/full/")
    \/ /\ Includes(url, "flica.net")
       /\ ~Includes(url, "login")
       /\ ~Includes(url, "public")
       /\ redirected

Did(field) == [sinceShow EXCEPT ![field] = @ + 1]

\* onMessage, on the message that has waited longest
OnMessage ==
    /\ Mounted
    /\ messages # <<>>
    /\ LET m == Head(messages)
           rest == Tail(messages)
           case == Handled(m, extractedRef)
       IN  CASE case = "schedule" ->
                  \* setStatus('done'); onScheduleLoaded(data.data), which
                  \* hides the modal
                  /\ status' = "done"
                  /\ visible' = FALSE
                  /\ showPending' = FALSE
                  /\ sinceShow' = Did("loadedCalls")
                  /\ WebViewAfter(FALSE, "done", page, rest)
                  /\ UNCHANGED <<errorMsg, extractedRef, retryCountRef,
                                 redirectedToLoginRef, navigatedToScheduleRef,
                                 detectTimers, recheckTimers>>
             [] case = "parseError" ->
                  /\ status' = "error"
                  /\ errorMsg' = <<"Failed to parse schedule">>
                  /\ WebViewAfter(visible, "error", page, rest)
                  /\ UNCHANGED <<visible, showPending, extractedRef,
                                 retryCountRef, redirectedToLoginRef,
                                 navigatedToScheduleRef, detectTimers,
                                 recheckTimers, sinceShow>>
             [] case = "needsRedirectToLogin" ->
                  /\ IF MayRedirect(redirectedToLoginRef)
                     THEN /\ redirectedToLoginRef' = TRUE
                          /\ status' = "loading"
                          /\ sinceShow' = Did("loginRedirects")
                     ELSE UNCHANGED <<redirectedToLoginRef, status, sinceShow>>
                  /\ WebViewAfter(visible, status', page, rest)
                  /\ UNCHANGED <<visible, showPending, errorMsg, extractedRef,
                                 retryCountRef, navigatedToScheduleRef,
                                 detectTimers, recheckTimers>>
             [] case \in {"login", "captcha"} ->
                  /\ status' = case
                  /\ WebViewAfter(visible, case, page, rest)
                  /\ UNCHANGED <<visible, showPending, errorMsg, extractedRef,
                                 retryCountRef, redirectedToLoginRef,
                                 navigatedToScheduleRef, detectTimers,
                                 recheckTimers, sinceShow>>
             [] case = "scheduleReady" ->
                  \* the parser is injected and posts its result
                  /\ extractedRef' = TRUE
                  /\ status' = "extracting"
                  /\ sinceShow' = Did("parserInjections")
                  /\ \E posted \in ParserMessages :
                       WebViewAfter(visible, "extracting", page,
                                    Append(rest, posted))
                  /\ UNCHANGED <<visible, showPending, errorMsg, retryCountRef,
                                 redirectedToLoginRef, navigatedToScheduleRef,
                                 detectTimers, recheckTimers>>
             [] case = "updating" ->
                  /\ retryCountRef' = retryCountRef + 1
                  /\ IF RetryAllowed(retryCountRef')
                     THEN /\ status' = "loading"
                          /\ detectTimers' = detectTimers + 1
                          /\ sinceShow' = Did("redetections")
                          /\ UNCHANGED errorMsg
                     ELSE /\ status' = "error"
                          /\ errorMsg' = <<"Schedule is still updating">>
                          /\ UNCHANGED <<detectTimers, sinceShow>>
                  /\ WebViewAfter(visible, status', page, rest)
                  /\ UNCHANGED <<visible, showPending, extractedRef,
                                 redirectedToLoginRef, navigatedToScheduleRef,
                                 recheckTimers>>
             [] case = "unknown" ->
                  /\ IF /\ isAuthenticated(m.url, redirectedToLoginRef)
                        /\ ~navigatedToScheduleRef
                     THEN /\ navigatedToScheduleRef' = TRUE
                          /\ status' = "loading"
                          /\ sinceShow' = Did("scheduleNavigations")
                          /\ UNCHANGED recheckTimers
                     ELSE /\ recheckTimers' = recheckTimers + 1
                          /\ UNCHANGED <<navigatedToScheduleRef, status,
                                         sinceShow>>
                  /\ WebViewAfter(visible, status', page, rest)
                  /\ UNCHANGED <<visible, showPending, errorMsg, extractedRef,
                                 retryCountRef, redirectedToLoginRef,
                                 detectTimers>>
             [] OTHER ->
                  /\ messages' = rest
                  /\ sinceShow' = Did("ignored")
                  /\ UNCHANGED <<visible, showPending, status, errorMsg,
                                 extractedRef, retryCountRef,
                                 redirectedToLoginRef, navigatedToScheduleRef,
                                 page, detectTimers, recheckTimers>>

notWebVars ==
    <<parserVars, fetchVars, sessionVars, cacheVars, screenVars, dayVars>>

WebViewInit == ParserIdle /\ AppIdle

WebViewNext ==
    \/ (OpenModal /\ UNCHANGED notWebVars)
    \/ (OnShow /\ UNCHANGED notWebVars)
    \/ (CloseModal /\ UNCHANGED notWebVars)
    \/ (OnLoadEnd /\ UNCHANGED notWebVars)
    \/ (OnNavigationStateChange /\ UNCHANGED notWebVars)
    \/ (DetectTimerFires /\ UNCHANGED notWebVars)
    \/ (RecheckTimerFires /\ UNCHANGED notWebVars)
    \/ (OnMessage /\ UNCHANGED notWebVars)

WebViewSpec == WebViewInit /\ [][WebViewNext]_vars

(***************************************************************************)
(* ScheduleScreen.tsx: buildDayViewModels, the merge of the calendar days  *)
(* with the schedule items.                                                *)
(***************************************************************************)
MaxDays == 2
MaxItems == 2

TripItem(tripNumber, dateStr, baseReportTime) ==
    [ type |-> "trip",
      data |-> [tripNumber |-> tripNumber, dateStr |-> dateStr,
                baseReportTime |-> baseReportTime] ]

ActivityItem(type, dateStr, startTime) ==
    [ type |-> "activity",
      data |-> [type |-> type, dateStr |-> dateStr, startTime |-> startTime] ]

\* the items of a February schedule: two trips that start on the first of a
\* month, February and March, and an activity
ViewItems ==
    { TripItem("O4031", "01FEB", "0545L"),
      TripItem("O4001", "01MAR", "1300L"),
      ActivityItem("SIC", "02FEB", "0000") }

ViewDay(dayOfMonth, activity, layoverAirport) ==
    [ dayOfWeek |-> "SU", dayOfMonth |-> dayOfMonth, activity |-> activity,
      layoverAirport |-> layoverAirport, isWeekend |-> TRUE ]

ViewDays ==
    { ViewDay(d, c[1], c[2]) :
        d \in {1, 2},
        c \in { <<"O4031", "BOS">>, <<"O4031", "">>, <<"SIC", "">>,
                <<"", "BOS">>, <<"", "">> } }

\* parseInt(item.data.dateStr.substring(0, 2), 10)
ItemDay(item) == ParseInt(SubSeq(item.data.dateStr, 1, 2))

\* itemsByDay: for each day that is a number, the last item set under it
itemsByDay(schedItems) ==
    LET slots == {k \in 1..Len(schedItems) : ItemDay(schedItems[k]) # NaN}
        days  == {ItemDay(schedItems[k]) : k \in slots}
        last(d) == CHOOSE k \in slots :
                      /\ ItemDay(schedItems[k]) = d
                      /\ \A j \in slots : ItemDay(schedItems[j]) = d => j <= k
    IN  [d \in days |-> schedItems[last(d)]]

\* itemsByDay.get(day) || null
MapGet(map, day) == IF day \in DOMAIN map THEN <<map[day]>> ELSE <<>>

\* the view model of one calendar day, given lastTripItem after the day
DayViewModel(calDay, matchedItem, lastTripItem) ==
    LET isTrip     == matchedItem # <<>> /\ matchedItem[1].type = "trip"
        isActivity == matchedItem # <<>> /\ matchedItem[1].type = "activity"
        base == [ dayOfMonth     |-> calDay.dayOfMonth,
                  dayOfWeek      |-> calDay.dayOfWeek,
                  isWeekend      |-> calDay.isWeekend,
                  activity       |-> calDay.activity,
                  layoverAirport |-> calDay.layoverAirport ]
        with(type, reportTime, item) ==
            [ dayOfMonth     |-> base.dayOfMonth,
              dayOfWeek      |-> base.dayOfWeek,
              isWeekend      |-> base.isWeekend,
              type           |-> type,
              activity       |-> base.activity,
              layoverAirport |-> base.layoverAirport,
              reportTime     |-> reportTime,
              item           |-> item ]
    IN  IF HasAt(calDay.activity, 1, "O")
        THEN with("trip",
                  IF isTrip THEN matchedItem[1].data.baseReportTime ELSE "",
                  matchedItem)
        ELSE IF calDay.activity # ""
        THEN with("activity",
                  IF isActivity THEN matchedItem[1].data.startTime ELSE "",
                  matchedItem)
        ELSE IF calDay.layoverAirport # ""
        THEN with("trip", "", lastTripItem)
        ELSE with("off", "", matchedItem)

\* schedule.calendar.map(...), with lastTripItem carried from day to day
RECURSIVE DayViewModels(_, _, _)
DayViewModels(days, map, lastTripItem) ==
    IF days = <<>> THEN <<>>
    ELSE LET calDay      == Head(days)
             matchedItem == MapGet(map, calDay.dayOfMonth)
             lastTrip    == IF matchedItem # <<>> /\ matchedItem[1].type = "trip"
                            THEN matchedItem
                            ELSE lastTripItem
         IN  <<DayViewModel(calDay, matchedItem, lastTrip)>>
                \o DayViewModels(Tail(days), map, lastTrip)

buildDayViewModels(sched) ==
    DayViewModels(sched.calendar, itemsByDay(sched.items), <<>>)

DayInit ==
    /\ vmSchedule \in [ calendar : SeqsUpTo(ViewDays, MaxDays),
                        items    : SeqsUpTo(ViewItems, MaxItems) ]
    /\ viewModels = <<>>

\* the memo of the screen calls buildDayViewModels(schedule)
BuildDayViewModels ==
    /\ viewModels = <<>>
    /\ viewModels' = <<buildDayViewModels(vmSchedule)>>
    /\ UNCHANGED vmSchedule

notDayVars ==
    <<parserVars, fetchVars, sessionVars, cacheVars, screenVars, webVars>>

DaySpecInit ==
    /\ ParserIdle
    /\ FetchIdle /\ SessionIdle /\ CacheIdle /\ ScreenIdle /\ WebIdle
    /\ DayInit

DayNext == BuildDayViewModels /\ UNCHANGED notDayVars

DaySpec == DaySpecInit /\ [][DayNext]_vars

(***************************************************************************)
(* Properties of the duty-period scan (DutySpec).                          *)
(***************************************************************************)
\* the step is the callback on a flight-leg row that is not ignored
LegRowStep ==
    /\ nRows' = nRows + 1
    /\ "main" \notin row'[1].cls
    /\ "bold" \notin row'[1].cls
    /\ "nowrap" \in row'[1].cls
    /\ Len(row'[1].cells) >= 10

\* the step closes a duty period
ClosesPeriod == Len(dutyPeriods') = Len(dutyPeriods) + 1

\* C2: every duty period emitted, by the boundary rule or at the end of the
\* input, has at least one leg.
C2_LegsNonEmpty ==
    \A k \in 1..Len(dutyPeriods) : Len(dutyPeriods[k].legs) >= 1

\* a scan that emitted a period by the boundary rule and one at the end
C2_Witness ==
    /\ scanPc = "done"
    /\ Len(dutyPeriods) >= 2

\* C4: a leg row closes the current duty period if and only if, just before
\* it, the open leg list is non-empty, a layover is open and the row's
\* day-of-month differs from the last-seen day-of-month, whatever the text of
\* the day-of-month cell.
C4_BoundaryIff ==
    [][ LegRowStep =>
          ( ClosesPeriod <=>
              /\ Len(currentLegs) > 0
              /\ currentLayover # <<>>
              /\ ParseInt(Cell(row'[1].cells, 1)) # lastDayOfMonth ) ]_vars

\* C5: in the list emitted for a trip every duty period but the last carries a
\* layover and the last carries none; before the end of the input every
\* period emitted so far carries one.
C5_LayoverButLast ==
    \A k \in 1..Len(dutyPeriods) :
        IF scanPc = "done" /\ k = Len(dutyPeriods)
        THEN dutyPeriods[k].layover = <<>>
        ELSE dutyPeriods[k].layover # <<>>

\* the input ended with a layover still open, after a boundary
C5_Witness ==
    /\ scanPc = "done"
    /\ Len(dutyPeriods) >= 2
    /\ currentLayover # <<>>

\* C6: a leg that follows a layover marker is never placed in the duty period
\* of the leg that opened the layover: a leg row scanned while a layover is
\* open starts a new period.
C6_NoInterveningLayover ==
    [][ (LegRowStep /\ Len(currentLegs) > 0 /\ currentLayover # <<>>)
          => Len(currentLegs') = 1 ]_vars

\* the row holds a cell 'Total:'
HasTotalCell(cells) == \E ci \in 0..(Len(cells) - 1) : Cell(cells, ci) = "Total:"

\* C14: when a totals row was scanned while a period was being built and the
\* next row closes that period by the boundary rule, the period emitted
\* carries the four totals read from the totals row.
C14_TotalsOnPeriodBeingBuilt ==
    [][ ( /\ LegRowStep
          /\ ClosesPeriod
          /\ row # <<>>
          /\ "main" \notin row[1].cls
          /\ "bold" \in row[1].cls
          /\ HasTotalCell(row[1].cells) )
          => LET p == dutyPeriods'[Len(dutyPeriods')]
             IN  <<p.totalBlock, p.totalDeadhead, p.totalCredit, p.totalDutyFdp>>
                    = <<totalBlock, totalDeadhead, totalCredit, totalDutyFdp>> ]_vars

\* the step is the callback on a D-END row applied to the open layover
DetailRowStep ==
    /\ nRows' = nRows + 1
    /\ row'[1].cls = {}
    /\ TimeAfter(Trim(RowText(row'[1].cells)), "D-END:") # <<>>
    /\ currentLayover # <<>>

\* the cells after the first two that can hold a hotel name, 0-based
NameCells(cells) ==
    { ci \in 2..(Len(cells) - 1) :
        /\ Cell(cells, ci) # ""
        /\ ~HasAt(Cell(cells, ci), 1, "(")
        /\ ~Includes(Cell(cells, ci), "D-END")
        /\ ~Includes(Cell(cells, ci), "T.A.F.B.") }

\* the cells after the first two that start with '(', 0-based
PhoneCells(cells) == { ci \in 2..(Len(cells) - 1) : HasAt(Cell(cells, ci), 1, "(") }

\* the first cell of a set of cells, '' when there is none
FirstCell(cells, S) == IF S = {} THEN "" ELSE Cell(cells, Least(S))

\* C16: a D-END row applied to a layover that has no hotel yet sets the hotel
\* name to the first candidate cell of the row and the hotel phone to the
\* first cell starting with '('.
C16_HotelFirstWins ==
    [][ ( /\ DetailRowStep
          /\ currentLayover[1].hotelName = ""
          /\ currentLayover[1].hotelPhone = "" )
          => /\ currentLayover'[1].hotelName
                    = FirstCell(row'[1].cells, NameCells(row'[1].cells))
             /\ currentLayover'[1].hotelPhone
                    = FirstCell(row'[1].cells, PhoneCells(row'[1].cells)) ]_vars

\* the legs of a list of duty periods, one after the other
RECURSIVE AllLegs(_)
AllLegs(periods) ==
    IF periods = <<>> THEN <<>> ELSE Head(periods).legs \o AllLegs(Tail(periods))

\* the legs taken so far: those of the periods emitted, then the open ones
LegsSoFar(periods, open, pcOfScan) ==
    AllLegs(periods) \o (IF pcOfScan = "scan" THEN open ELSE <<>>)

\* C28: the legs of the emitted periods followed by the open legs are the
\* accepted leg rows in document order: a leg row adds its leg at the end and
\* every other step, the end of the input included, leaves the sequence as it
\* is, so that at the end the emitted periods hold every leg once, in order.
C28_LegsPreserved ==
    [][ LET before == LegsSoFar(dutyPeriods, currentLegs, scanPc)
            after  == LegsSoFar(dutyPeriods', currentLegs', scanPc')
        IN  IF LegRowStep
            THEN /\ Len(after) = Len(before) + 1
                 /\ SubSeq(after, 1, Len(before)) = before
                 /\ after[Len(after)].dayOfWeek = Cell(row'[1].cells, 0)
                 /\ after[Len(after)].dayOfMonth = ParseInt(Cell(row'[1].cells, 1))
                 /\ after[Len(after)].flightNumber = Cell(row'[1].cells, 4)
                 /\ after[Len(after)].groundTime = Cell(row'[1].cells, 9)
            ELSE after = before ]_vars

\* the input ended after three leg rows, the third closing a period of two
C28_Witness ==
    /\ scanPc = "done"
    /\ Len(dutyPeriods) = 2
    /\ Len(dutyPeriods[1].legs) = 2
    /\ Len(AllLegs(dutyPeriods)) = 3

\* the step is the callback on a header row, on a leg row of fewer than 10
\* cells, on a D-END row while no layover is open, or on a row that is
\* neither header, totals, leg nor D-END
IgnoredRowStep ==
    /\ nRows' = nRows + 1
    /\ LET r == row'[1]
       IN  \/ "main" \in r.cls
           \/ /\ "bold" \notin r.cls
              /\ "nowrap" \in r.cls
              /\ Len(r.cells) < 10
           \/ /\ "bold" \notin r.cls
              /\ "nowrap" \notin r.cls
              /\ \/ currentLayover = <<>>
                 \/ TimeAfter(Trim(RowText(r.cells)), "D-END:") = <<>>

\* C29: a header row, a leg row of fewer than 10 cells, a D-END row scanned
\* while no layover is open and a row of no kind leave the open legs, the open
\* layover, the last-seen day of month, the pending totals and the emitted
\* periods unchanged.
C29_IgnoredRowsFrame ==
    [][ IgnoredRowStep
          => UNCHANGED <<currentLegs, currentLayover, lastDayOfMonth, totalBlock,
                         totalDeadhead, totalCredit, totalDutyFdp, dutyPeriods>> ]_vars

\* a D-END row was scanned with a leg pending and no layover open
C29_Witness ==
    /\ row # <<>>
    /\ row[1].cls = {}
    /\ TimeAfter(Trim(RowText(row[1].cells)), "D-END:") # <<>>
    /\ Len(currentLegs) > 0
    /\ currentLayover = <<>>

\* C30: a period that has been emitted is never changed: every step leaves
\* the periods emitted before it as they are, and a D-END row changes no
\* variable but the open layover.
C30_EmittedPeriodsFrozen ==
    [][ /\ Len(dutyPeriods') >= Len(dutyPeriods)
        /\ SubSeq(dutyPeriods', 1, Len(dutyPeriods)) = dutyPeriods
        /\ DetailRowStep
              => UNCHANGED <<currentLegs, lastDayOfMonth, totalBlock, totalDeadhead,
                             totalCredit, totalDutyFdp, dutyPeriods>> ]_vars

\* a D-END row was applied to the open layover after a period was emitted
C30_Witness ==
    /\ scanPc = "scan"
    /\ Len(dutyPeriods) >= 1
    /\ currentLayover # <<>>
    /\ currentLayover[1].dutyEndLocal # ""
    /\ dutyPeriods[1].layover[1].dutyEndLocal = ""

(***************************************************************************)
(* Properties of parseScheduleDetail (Spec).                               *)
(***************************************************************************)
\* C1: the items list is, in order, the records produced from the direct
\* child tables in document order: the source tables of the items are
\* strictly increasing, so no table gives two items, the item a table gives
\* is the last of the list when the table has been walked, and the list
\* returned is that list.
C1_ItemsInDocumentOrder ==
    /\ Len(itemSrc) = Len(items)
    /\ \A k \in 1..Len(itemSrc) : itemSrc[k] \in 1..i
    /\ \A k \in 1..(Len(itemSrc) - 1) : itemSrc[k] < itemSrc[k + 1]
    /\ (itemSrc # <<>> /\ itemSrc[Len(itemSrc)] = i)
          => <<items[Len(items)]>>
                = ItemsOfTable("server", table[1], header[1].year,
                               header[1].monthNumber)
    /\ pc = "done" => result[1].items = items

\* a document of two tables that gave two different items has been returned
C1_Witness ==
    /\ pc = "done"
    /\ Len(result[1].items) = 2
    /\ result[1].items[1] # result[1].items[2]

\* C3: every trip emitted has a non-empty dutyPeriods list.
C3_TripHasDutyPeriods ==
    \A k \in 1..Len(items) :
        items[k].type = "trip" => Len(items[k].data.dutyPeriods) >= 1

\* C7: the year of an emitted trip's date is the header's year plus one when
\* the month abbreviation of the date token is in the month table with a
\* number less than the header's month number, and the header's year
\* otherwise, an unknown abbreviation included.
C7_DateYear ==
    \A k \in 1..Len(items) :
        items[k].type = "trip" =>
            LET abbr == SubSeq(items[k].data.dateStr, 3, 5)
                M    == header[1].monthNumber
                Y    == header[1].year
            IN  ParseInt(items[k].data.date)
                    = IF MONTH_MAP(abbr) # 0 /\ MONTH_MAP(abbr) < M
                      THEN Y + 1 ELSE Y

\* a trip of January under a later month's header was dated in the next year
C7_Witness ==
    \E k \in 1..Len(items) :
        /\ items[k].type = "trip"
        /\ SubSeq(items[k].data.dateStr, 3, 5) = "JAN"
        /\ ParseInt(items[k].data.date) = header[1].year + 1

\* O<digits>
IsTripNumber(s) ==
    Len(s) >= 2 /\ CharAt(s, 1) = "O" /\ RunLen(s, 2, DigitChars) = Len(s) - 1

\* <2 digits><3 uppercase letters>
IsDateToken(s) ==
    Len(s) = 5 /\ RunLen(s, 1, DigitChars) = 2 /\ RunLen(s, 3, UpperChars) = 3

\* 2 to 4 uppercase letters
IsTypeCode(s) == Len(s) \in 2..4 /\ RunLen(s, 1, UpperChars) = Len(s)

\* C10: every emitted trip has a tripNumber O<digits> and a dateStr of two
\* digits and three uppercase letters; every emitted activity has a type of
\* 2 to 4 uppercase letters and such a dateStr.
C10_NoPartialItem ==
    \A k \in 1..Len(items) :
        LET d == items[k].data
        IN  IF items[k].type = "trip"
            THEN IsTripNumber(d.tripNumber) /\ IsDateToken(d.dateStr)
            ELSE IsTypeCode(d.type) /\ IsDateToken(d.dateStr)

\* the table walked last gave the last item of the list
EmittedItem == itemSrc # <<>> /\ itemSrc[Len(itemSrc)] = i

\* C11: a table taken as a trip block gives a Trip whenever the header
\* pattern matches in the first cell of its first row.
C11_RejectedOnlyOnHeaderMismatch ==
    ( /\ table # <<>>
      /\ ~IsSeparator(table[1])
      /\ HasTripHeaderTd(table[1])
      /\ TripMatch(TdText(table[1].rows[1], 0)) # <<>> )
        => (EmittedItem /\ items[Len(items)].type = "trip")

\* C13: a table is handled as a separator, else as a trip block, else as an
\* activity block, else ignored: a separator gives no item whatever headers
\* it holds, a trip block gives a Trip or nothing, an activity block gives an
\* Activity or nothing, and any other table gives nothing.
C13_FirstMatchPrecedence ==
    table # <<>> =>
        LET t == table[1]
        IN  IF IsSeparator(t) THEN ~EmittedItem
            ELSE IF HasTripHeaderTd(t)
                 THEN EmittedItem => items[Len(items)].type = "trip"
            ELSE IF HasActivityHeader(t)
                 THEN EmittedItem => items[Len(items)].type = "activity"
            ELSE ~EmittedItem

\* a trip block that also holds an activity header gave no item
C13_Witness ==
    /\ table # <<>>
    /\ ~IsSeparator(table[1])
    /\ HasTripHeaderTd(table[1])
    /\ HasActivityHeader(table[1])
    /\ ~EmittedItem

\* YYYY-MM-DD with MM in 01..12 and DD the given two characters
IsIsoDate(s, dd) ==
    /\ Len(s) = 10
    /\ RunLen(s, 1, DigitChars) = 4
    /\ CharAt(s, 5) = "-"
    /\ RunLen(s, 6, DigitChars) = 2
    /\ ParseInt(SubSeq(s, 6, 7)) \in 1..12
    /\ CharAt(s, 8) = "-"
    /\ SubSeq(s, 9, 10) = dd

\* C20: the date of every emitted trip is YYYY-MM-DD, with MM two digits in
\* 01..12 and DD the two-digit day of the date token.
C20_DateForm ==
    \A k \in 1..Len(items) :
        items[k].type = "trip" =>
            IsIsoDate(items[k].data.date, SubSeq(items[k].data.dateStr, 1, 2))

\* the table walked last gave a trip
EmittedTrip == EmittedItem /\ items[Len(items)].type = "trip"

\* C15: the tafb and the tripRig of an emitted trip are the captures of the
\* first strong element of its table that matches 'T.A.F.B.: <digits>',
\* respectively 'TRIP RIG: <digits>', and '' when none matches.
C15_TafbFirstMatch ==
    EmittedTrip =>
        LET strongs == TableStrongs(table[1].inner)
            trip    == items[Len(items)].data
        IN  /\ trip.tafb = FirstCapture("", strongs, "T.A.F.B.:")
            /\ trip.tripRig = FirstCapture("", strongs, "TRIP RIG:")

\* the cells of the rows of a crew table whose text is CA or FO and that have
\* two following cells in their row, as <<row, index of the cell>>
CrewCells(rows) ==
    { rc \in (1..Len(rows)) \X (0..7) :
        /\ rc[2] < Len(rows[rc[1]].cells) - 2
        /\ Cell(rows[rc[1]].cells, rc[2]) \in {"CA", "FO"} }

\* C17: the crew of an emitted trip has one member for every cell of the crew
\* table whose text is CA or FO and that has two following cells in its row.
C17_OneMemberPerCrewCell ==
    EmittedTrip =>
        LET crewTable == CrewTableOf("server", table[1].inner)
            crew      == items[Len(items)].data.crew
        IN  Len(crew) = IF crewTable = <<>> THEN 0
                        ELSE Cardinality(CrewCells(crewTable[1]))

\* the table walked last is an activity block
ActivityBlock ==
    /\ table # <<>>
    /\ ~IsSeparator(table[1])
    /\ ~HasTripHeaderTd(table[1])
    /\ HasActivityHeader(table[1])

\* C21: an activity block gives an Activity; when no row of the table has the
\* type code in its first cell, the start date, start time, end date, end
\* time and credit of the Activity are empty strings.
C21_ActivityAlwaysEmitted ==
    ActivityBlock =>
        /\ EmittedItem
        /\ items[Len(items)].type = "activity"
        /\ LET act == items[Len(items)].data
           IN  (\A k \in 1..Len(table[1].rows) :
                    TdText(table[1].rows[k], 0) # act.type)
                 => /\ act.startDate = ""
                    /\ act.startTime = ""
                    /\ act.endDate = ""
                    /\ act.endTime = ""
                    /\ act.credit = ""

(***************************************************************************)
(* Properties of the sidebar loops (SidebarSpec).                          *)
(***************************************************************************)
\* the number of rows parseSummary has taken
SummaryTaken ==
    IF sidePc = "summary" THEN sideIdx
    ELSE IF sidePc = "done" THEN Len(sideRows)
    ELSE 0

\* the row bears the label of the field
BearsLabel(r, field) ==
    LET label == ToLowerCase(Cell(r.cells, 0))
    IN  /\ Len(r.cells) >= 2
        /\ IF field = "daysOff" THEN Includes(label, "days off")
           ELSE label = ToLowerCase(field)

\* the value of the last of the first n rows that bears the label of the field
\* and has a number in its second cell, 0 when there is none
LastValue(n, field) ==
    LET K == { k \in 1..n : /\ BearsLabel(sideRows[k], field)
                            /\ ParseFloat(Cell(sideRows[k].cells, 1)) # <<>> }
    IN  IF K = {} THEN 0
        ELSE ParseFloat(Cell(sideRows[CHOOSE k \in K : \A j \in K : j <= k].cells, 1))[1]

\* C18: each summary field is the value of the last row taken that bears its
\* label and has a number in its second cell, 0 when there is none.
C18_SummaryLastWins ==
    /\ summary.block = LastValue(SummaryTaken, "block")
    /\ summary.credit = LastValue(SummaryTaken, "credit")
    /\ summary.ytd = LastValue(SummaryTaken, "ytd")
    /\ summary.daysOff = LastValue(SummaryTaken, "daysOff")

\* three block rows were taken: 43.18, then 50, then a text that is no number
C18_Witness ==
    /\ sidePc = "done"
    /\ Len(sideRows) = 3
    /\ \A k \in 1..3 : BearsLabel(sideRows[k], "block")
    /\ ParseFloat(Cell(sideRows[1].cells, 1)) = <<4318>>
    /\ ParseFloat(Cell(sideRows[3].cells, 1)) = <<>>
    /\ summary.block = 5000

\* the number of rows parseCalendar has taken
CalendarTaken == IF sidePc = "calendar" THEN sideIdx ELSE Len(sideRows)

\* the rows taken that have 4 cells or more, a day of week and a day of month
\* that parses as an integer
DayRows ==
    { k \in 1..CalendarTaken :
        /\ Len(sideRows[k].cells) >= 4
        /\ Cell(sideRows[k].cells, 0) # ""
        /\ RunLen(Cell(sideRows[k].cells, 1), 1, DigitChars) >= 1 }

InFlight == {c \in Callers : callPc[c] # "idle"}

\* the step is a call of c that finds the lock held
CalledWhileLocked(c) ==
    /\ callPc[c] = "idle"
    /\ requestInFlight
    /\ outcome'[c] # outcome[c]

\* C22: at most one call is in flight; a call that begins while the lock is
\* held throws RATE_LIMITED, sends no request and leaves the lock held.
C22_SingleFlight ==
    [][ /\ Cardinality(InFlight') <= 1
        /\ \A c \in Callers :
             CalledWhileLocked(c)
               => /\ outcome'[c].kind = "thrown"
                  /\ outcome'[c].code = "RATE_LIMITED"
                  /\ requestInFlight'
                  /\ UNCHANGED <<lastSentAt, requestsSent, callPc,
                                 lastRequestTime>> ]_vars

\* one caller was rejected at the lock while the other awaits its response
C22_Witness ==
    \E c, d \in Callers :
        /\ outcome[c] = Thrown("RATE_LIMITED",
                               "A request is already in progress. Please wait.")
        /\ callPc[d] = "fetching"
        /\ requestsSent[d] = 2
        /\ requestInFlight

\* the step sends a request
SendsRequest ==
    \E c \in Callers :
        /\ callPc[c] \in {"idle", "sleeping"}
        /\ callPc'[c] = "fetching"

\* C23: a request is sent at least 5 seconds after the request before it.
C23_RequestsFiveSecondsApart ==
    [][ (SendsRequest /\ lastSentAt # <<>>)
          => lastSentAt'[1] - lastSentAt[1] >= 5000 ]_vars

\* the page is an updating page: it has the updating text and no text of an
\* error page
IsUpdatingPage(html) ==
    /\ "Updating schedule in progress" \in html
    /\ html \cap {"g-recaptcha", "recaptcha", "CAPTCHA", "Sign In to FLICA",
                  "login/index.html", "InitializeSessionData",
                  "Application Error"} = {}

\* the page is ready or unknown: it has neither the updating text nor a text
\* of an error page
IsPlainPage(html) ==
    html \cap {"Updating schedule in progress", "g-recaptcha", "recaptcha",
               "CAPTCHA", "Sign In to FLICA", "login/index.html",
               "InitializeSessionData", "Application Error"} = {}

\* the step is c reading the page of its response
ReadsPage(c) ==
    /\ callPc[c] = "reading"
    /\ callPc'[c] # "reading"
    /\ outcome'[c].code # "NETWORK_ERROR"

\* C24: a call sends at most 7 requests; it sends a further request only out
\* of the wait that follows an updating page; it returns the first ready or
\* unknown page it reads; it throws HTTP_ERROR on the updating page that
\* answers its 7th request; and it ends.
C24_BoundedRetries ==
    /\ [](\A c \in Callers : requestsSent[c] <= 7)
    /\ [][ \A c \in Callers :
             /\ (requestsSent[c] >= 1 /\ requestsSent'[c] > requestsSent[c])
                  => /\ callPc[c] = "sleeping"
                     /\ IsUpdatingPage(body[c][1])
             /\ (ReadsPage(c) /\ IsPlainPage(body[c][1]))
                  => outcome'[c] = Returned(body[c][1])
             /\ (ReadsPage(c) /\ IsUpdatingPage(body[c][1]))
                  => IF requestsSent[c] = 7
                     THEN /\ outcome'[c].kind = "thrown"
                          /\ outcome'[c].code = "HTTP_ERROR"
                          /\ callPc'[c] = "idle"
                     ELSE /\ callPc'[c] = "sleeping"
                          /\ outcome'[c] = Pending ]_vars
    /\ \A c \in Callers : (callPc[c] # "idle") ~> (callPc[c] = "idle")

\* a call gave up on the updating page that answered its 7th request
C24_Witness ==
    \E c \in Callers :
        /\ outcome[c] = Thrown("HTTP_ERROR",
                               "FLICA is still building your schedule.")
        /\ lastSentAt # <<>>
        /\ lastSentAt[1] - lastRequestTime = 30000

\* the markers of the CAPTCHA page, of the login page and of the failed
\* session
CaptchaMarkers == {"g-recaptcha", "recaptcha", "CAPTCHA"}

LoginMarkers == {"Sign In to FLICA", "login/index.html"}

SessionFailureMarkers == {"InitializeSessionData", "Application Error"}

\* C31: the page read is judged by the first test it matches, in the order
\* CAPTCHA, login page, failed session, updating, schedule: a CAPTCHA page
\* raises BLOCKED, else a login page or a failed session raises
\* TOKEN_EXPIRED, else an updating page is retried or given up on, and only
\* a page that matches none of them is returned.
C31_PageChecksInOrder ==
    [][ \A c \in Callers :
          ReadsPage(c) =>
            LET html == body[c][1]
            IN  IF html \cap CaptchaMarkers # {}
                THEN /\ outcome'[c].kind = "thrown"
                     /\ outcome'[c].code = "BLOCKED"
                     /\ callPc'[c] = "idle"
                ELSE IF html \cap (LoginMarkers \cup SessionFailureMarkers) # {}
                THEN /\ outcome'[c].kind = "thrown"
                     /\ outcome'[c].code = "TOKEN_EXPIRED"
                     /\ callPc'[c] = "idle"
                ELSE IF "Updating schedule in progress" \in html
                THEN /\ outcome'[c].kind # "returned"
                     /\ outcome'[c].code \in {"", "HTTP_ERROR"}
                ELSE outcome'[c] = Returned(html) ]_vars

\* a page with a CAPTCHA marker and table2 raised BLOCKED
C31_Witness ==
    \E c \in Callers :
        /\ outcome[c].kind = "thrown"
        /\ outcome[c].code = "BLOCKED"
        /\ outcome[c].html = {"recaptcha", "table2"}
        /\ callPc[c] = "idle"

\* the step is a call of c made when no call is in flight and the last call
\* admitted began at least 5 seconds ago
CalledWhenFree(c) ==
    /\ callPc[c] = "idle"
    /\ InFlight = {}
    /\ now - lastRequestTime >= 5000
    /\ outcome'[c] # outcome[c]

\* C34: the lock is held exactly while a call is in flight and every call
\* that takes it gives it back; a call made when no call is in flight and 5
\* seconds have passed since the last one began is admitted.
C34_LockReleased ==
    /\ [](requestInFlight <=> InFlight # {})
    /\ requestInFlight ~> ~requestInFlight
    /\ [][ \A c \in Callers :
             CalledWhenFree(c)
               => /\ callPc'[c] = "fetching"
                  /\ outcome'[c] = Pending
                  /\ requestInFlight' ]_vars

\* a call was admitted after the calls before it ended with a network
\* exception and with a FetchError
C34_Witness ==
    \E c, d \in Callers :
        /\ callPc[c] = "fetching"
        /\ requestsSent[c] = 1
        /\ lastRequestTime >= Epoch + 5000
        /\ outcome[d].kind = "thrown"
        /\ outcome[d].code \in {"NETWORK_ERROR", "BLOCKED"}

(***************************************************************************)
(* Properties of the screen (ScreenSpec).                                  *)
(***************************************************************************)
\* the user has moved to a month, has done nothing since, and the app has no
\* call of the repository left to await
NavigationSettled ==
    /\ lastEvent = "navigate"
    /\ dbQueue = <<>>

\* C25: once the user has moved to a month and the app has come to rest, a
\* schedule cached for that month is the one shown and the WebView is closed,
\* and with no schedule cached the WebView is open.
C25_NavigationLoadsOrFetches ==
    NavigationSettled =>
        LET cached == getSchedule(schedules, <<currentMonth, currentYear>>)
        IN  IF cached # <<>>
            THEN schedule = cached /\ ~webViewVisible
            ELSE webViewVisible

(***************************************************************************)
(* Properties of the session store (SessionSpec).                          *)
(***************************************************************************)
\* the text is exactly 32 hexadecimal characters
Is32Hex(str) ==
    /\ Len(str) = 32
    /\ \A k \in 1..32 : CharAt(str, k) \in HexChars

\* the stored session is null or has a token of 32 hexadecimal characters
StoredTokenWellFormed(session) ==
    session = <<>> \/ Is32Hex(session[1].token)

\* the step is a call of setSession or setToken
SetsSession == sessionCall' # sessionCall /\ sessionCall'.op # "clearSession"

\* C27, as stated: the stored session is null or has a token of 32
\* hexadecimal characters, and a setSession or setToken call whose token is
\* not exactly 32 hexadecimal characters throws and leaves the session as it
\* was.
C27_Original ==
    [][ /\ StoredTokenWellFormed(currentSession')
        /\ (SetsSession /\ ~Is32Hex(sessionCall'.token))
             => /\ sessionCall'.threw
                /\ currentSession' = currentSession ]_vars

\* C27, amended: the stored session is null or has a token of 32 hexadecimal
\* characters, and a setSession or setToken call whose token, with the white
\* space around it removed, is not exactly 32 hexadecimal characters throws
\* and leaves the session as it was; any other call stores the token without
\* the white space around it.
C27_TokenWellFormed ==
    [][ /\ StoredTokenWellFormed(currentSession')
        /\ SetsSession
             => IF Is32Hex(Trim(sessionCall'.token))
                THEN /\ ~sessionCall'.threw
                     /\ currentSession' # <<>>
                     /\ currentSession'[1].token = Trim(sessionCall'.token)
                ELSE /\ sessionCall'.threw
                     /\ currentSession' = currentSession ]_vars

\* a call with a token of 33 hexadecimal characters threw while a session was
\* stored
C27_Witness ==
    /\ sessionCall.threw
    /\ Len(sessionCall.token) = 33
    /\ currentSession # <<>>

(***************************************************************************)
(* Properties of the cache (CacheSpec).                                    *)
(***************************************************************************)
\* C26: the table has at most one row per (month, year); getSchedule returns
\* the record of the last saveSchedule of its key that was not deleted or
\* cleared since, null when there is none; and hasSchedule is true exactly
\* when getSchedule is not null.
C26_CacheLastSaved ==
    /\ \A k \in Keys : Cardinality(RowsOf(schedules, k)) <= 1
    /\ \A k \in Keys : getSchedule(schedules, k) = lastSaved[k]
    /\ \A k \in Keys : hasSchedule(schedules, k) = (getSchedule(schedules, k) # <<>>)
    /\ cacheCall.op = "getSchedule" => cacheCall.out = lastSaved[cacheCall.key]
    /\ cacheCall.op = "hasSchedule"
         => cacheCall.out[1] = (lastSaved[cacheCall.key] # <<>>)

\* getSchedule returned a record saved with the later timestamp, the only
\* row of the table
C26_Witness ==
    /\ cacheCall.op = "getSchedule"
    /\ cacheCall.out = <<ScheduleData("February", JsonNull)>>
    /\ \E r \in RowsOf(schedules, cacheCall.key) :
           r.fetched_at = "2026-02-02T08:00:00.000Z"
    /\ Cardinality(schedules) = 1

(***************************************************************************)
(* Properties of the two parsers on one document (ParsersSpec).            *)
(***************************************************************************)
\* C8: on one document at one clock year, the server's parser and the
\* injected script return the same schedule.
C8_SameSchedule ==
    \A a, b \in 1..Len(runs) :
        runs[a].clock = runs[b].clock => runs[a].out = runs[b].out

\* the document has no trip block, no activity block and no sidebar table
NoBlocks ==
    /\ doc.sidebars = <<>>
    /\ \A k \in 1..Len(doc.tables) :
          \/ IsSeparator(doc.tables[k])
          \/ ~HasTripHeaderTd(doc.tables[k]) /\ ~HasActivityHeader(doc.tables[k])

\* C12: every call returns a record; on a document with no heading the month,
\* crewMemberName, employeeNumber and lastUpdated are empty strings, and on a
\* document with no recognizable block the items list is empty and the four
\* summary totals are zero.
C12_MalformedInput ==
    \A k \in 1..Len(runs) :
        LET out == runs[k].out
        IN  /\ doc.h3Text = ""
                => /\ out.month = ""
                   /\ out.crewMemberName = ""
                   /\ out.employeeNumber = ""
                   /\ out.lastUpdated = ""
            /\ NoBlocks
                => /\ out.items = <<>>
                   /\ out.calendar = <<>>
                   /\ out.summary = [block |-> 0, credit |-> 0, ytd |-> 0, daysOff |-> 0]

\* the server's parser ran on a document with no heading whose only table is
\* neither a trip block nor an activity block
C12_Witness ==
    /\ runs # <<>>
    /\ runs[1].impl = "server"
    /\ doc.h3Text = ""
    /\ Len(doc.tables) = 1
    /\ NoBlocks

\* the text holds a run of four digits
HasFourDigits(s) == \E p \in 1..Len(s) : RunLen(s, p, DigitChars) >= 4

\* C9: two calls of one parser on one document return equal records when the
\* clock year is the same or the last-updated text holds a run of four
\* digits; the year returned is the clock year only when it holds none.
C9_Deterministic ==
    \A a, b \in 1..Len(runs) :
        /\ ( /\ runs[a].impl = runs[b].impl
             /\ \/ runs[a].clock = runs[b].clock
                \/ HasFourDigits(runs[a].out.lastUpdated) )
              => runs[a].out = runs[b].out
        /\ ~HasFourDigits(runs[a].out.lastUpdated)
              => runs[a].out.year = runs[a].clock

\* the server's parser ran twice, at two clock years, on a document with a
\* year in its last-updated text and a trip
C9_Witness ==
    /\ Len(runs) = 2
    /\ runs[1].impl = "server" /\ runs[2].impl = "server"
    /\ runs[1].clock # runs[2].clock
    /\ HasFourDigits(runs[1].out.lastUpdated)
    /\ runs[1].out.items # <<>>

(***************************************************************************)
(* Properties of the WebView modal (WebViewSpec).                          *)
(***************************************************************************)
DetectionTypes ==
    {"login", "captcha", "updating", "unknown", "needsRedirectToLogin",
     "scheduleReady"}

\* the step handles a detection message that arrives after the parser was
\* injected
LateMessageStep ==
    /\ OnMessage
    /\ extractedRef
    /\ Head(messages).type \notin {"schedule", "parseError"}

\* C32: once the parser is injected (extractedRef set), a message other than
\* 'schedule' and 'parseError' changes neither the status, nor the retry,
\* redirect and navigation refs, nor extractedRef, and causes no injection,
\* redirect, navigation, timer or call of onScheduleLoaded.
C32_LateMessagesIgnored ==
    [][LateMessageStep =>
         /\ UNCHANGED <<status, errorMsg, extractedRef, retryCountRef,
                        redirectedToLoginRef, navigatedToScheduleRef,
                        detectTimers, recheckTimers, visible>>
         /\ sinceShow'.loadedCalls = sinceShow.loadedCalls
         /\ sinceShow'.parserInjections = sinceShow.parserInjections
         /\ sinceShow'.loginRedirects = sinceShow.loginRedirects
         /\ sinceShow'.scheduleNavigations = sinceShow.scheduleNavigations
         /\ sinceShow'.redetections = sinceShow.redetections]_vars

\* a detection message was ignored while the parser result is awaited
C32_Witness ==
    /\ extractedRef
    /\ status = "extracting"
    /\ sinceShow.parserInjections = 1
    /\ sinceShow.ignored > 0

\* the step handles an 'updating' message before the parser is injected
UpdatingStep ==
    /\ OnMessage
    /\ ~extractedRef
    /\ Head(messages).type = "updating"

\* C35: between two calls of onShow the 'updating' messages schedule at most
\* 6 detections; an 'updating' message that follows 6 others sets the status
\* to 'error' and schedules nothing; and a status of 'error' is left by onShow
\* only.
C35_SixRedetections ==
    /\ [](sinceShow.redetections <= 6)
    /\ [][UpdatingStep /\ retryCountRef >= 6 =>
            /\ status' = "error"
            /\ UNCHANGED <<detectTimers, recheckTimers>>
            /\ sinceShow'.redetections = sinceShow.redetections]_vars
    /\ [][status = "error" /\ status' # "error" => OnShow]_vars

\* the seventh 'updating' message since onShow has been handled
C35_Witness ==
    /\ visible
    /\ status = "error"
    /\ retryCountRef = 7
    /\ sinceShow.redetections = 6

\* C36: between two calls of onShow the parser script is injected at most
\* once, the redirect to the login page is issued at most once, the
\* navigation to the schedule URL is issued at most once, and
\* onScheduleLoaded is called only when a 'scheduleReady' message has caused
\* the injection since that onShow.
C36_OncePerShow ==
    /\ sinceShow.parserInjections <= 1
    /\ sinceShow.loginRedirects <= 1
    /\ sinceShow.scheduleNavigations <= 1
    /\ (sinceShow.loadedCalls > 0 =>
          extractedRef /\ sinceShow.parserInjections = 1)

\* a schedule was delivered after a redirect, a navigation and the injection
C36_Witness ==
    /\ sinceShow.loadedCalls = 1
    /\ sinceShow.parserInjections = 1
    /\ sinceShow.loginRedirects = 1
    /\ sinceShow.scheduleNavigations = 1

(***************************************************************************)
(* Properties of the sidebar table of a document (ParsersSpec).            *)
(***************************************************************************)
\* the rows of the one table the calendar and the summary are said to be
\* read from: the first table of name table2 or, when no table has that
\* name, the first table of id table2
NamedTableRows(sidebars) ==
    LET byName == SelectSeq(sidebars, LAMBDA t : t.name = "table2")
        byId   == SelectSeq(sidebars, LAMBDA t : t.id = "table2")
    IN  IF byName # <<>> THEN byName[1].rows
        ELSE IF byId # <<>> THEN byId[1].rows
        ELSE <<>>

\* C33: the calendar and the summary of every run are those of one table,
\* the table of name table2 if there is one, otherwise the table of id
\* table2; the rows of no other table contribute.
C33_OneSidebarTable ==
    \A k \in 1..Len(runs) :
        /\ runs[k].out.calendar =
               CalendarRows(<<>>, NamedTableRows(doc.sidebars))
        /\ runs[k].out.summary =
               SummaryRows(SummaryInit, NamedTableRows(doc.sidebars))

(***************************************************************************)
(* Properties of the month navigation (ScreenSpec).                        *)
(***************************************************************************)
\* the step is a press on an arrow of the navigator
PrevStep == PrevMonth

NextStep == NextMonth

\* C39: the selected month stays in 1..12; onNextMonth takes (12, y) to
\* (1, y+1) and any other (m, y) to (m+1, y); onPrevMonth takes (1, y) to
\* (12, y-1) and any other (m, y) to (m-1, y); and each undoes the other.
C39_MonthNavigation ==
    /\ [](currentMonth \in 1..12)
    /\ [][NextStep =>
            /\ (currentMonth = 12 =>
                  currentMonth' = 1 /\ currentYear' = currentYear + 1)
            /\ (currentMonth # 12 =>
                  currentMonth' = currentMonth + 1 /\ currentYear' = currentYear)
            /\ onPrevMonth(currentMonth', currentYear')
                 = <<currentMonth, currentYear>>]_vars
    /\ [][PrevStep =>
            /\ (currentMonth = 1 =>
                  currentMonth' = 12 /\ currentYear' = currentYear - 1)
            /\ (currentMonth # 1 =>
                  currentMonth' = currentMonth - 1 /\ currentYear' = currentYear)
            /\ onNextMonth(currentMonth', currentYear')
                 = <<currentMonth, currentYear>>]_vars

\* the user has gone back from January over the turn of the year
C39_Witness ==
    /\ lastEvent = "navigate"
    /\ currentMonth = 12
    /\ currentYear = 2025

\* nothing is awaited: the first load is over, the WebView is closed and no
\* repository call is pending
ScreenQuiet == ~loading /\ ~webViewVisible /\ dbQueue = <<>>

\* C37: once every cache load and every delivery of the WebView has
\* completed, the schedule shown is the cached record of the selected
\* (month, year), or none when that month is not cached.
C37_ShownIsCachedMonth ==
    ScreenQuiet =>
        schedule = getSchedule(schedules, <<currentMonth, currentYear>>)

(***************************************************************************)
(* Properties of buildDayViewModels (DaySpec).                             *)
(***************************************************************************)
\* C38: there is one view model per calendar day, in calendar order; on a
\* day whose activity code starts with 'O' the attached item, when present,
\* is a trip of that tripNumber; on a day with another non-empty code the
\* attached item, when present, is an activity of that type.
C38_ItemMatchesDay ==
    viewModels # <<>> =>
        LET models == viewModels[1]
            days   == vmSchedule.calendar
        IN  /\ Len(models) = Len(days)
            /\ \A k \in 1..Len(days) :
                 /\ models[k].dayOfMonth = days[k].dayOfMonth
                 /\ models[k].activity = days[k].activity
                 /\ (HasAt(days[k].activity, 1, "O") /\ models[k].item # <<>> =>
                       /\ models[k].item[1].type = "trip"
                       /\ models[k].item[1].data.tripNumber = days[k].activity)
                 /\ (~HasAt(days[k].activity, 1, "O") /\ days[k].activity # ""
                       /\ models[k].item # <<>> =>
                       /\ models[k].item[1].type = "activity"
                       /\ models[k].item[1].data.type = days[k].activity)

====
